---- MODULE Spec2Model ----
(***************************************************************************)
(* Model of the single-instance orchestration engine of siguwi             *)
(* (siguwi-process.c and the helpers it calls): role arbitration on the    *)
(* named pipe, the IPC frame decoder, the job queue (vector.c), the        *)
(* process runner and the PIN cache (htableo.c, siguwi-ini.c).             *)
(*                                                                         *)
(* The server is single threaded.  Every handler (a completion routine, a  *)
(* step of showProcess) is one atomic action; a handler is written as an   *)
(* operator from the world before it to the SET of worlds it can leave     *)
(* behind, one per outcome of the operating-system calls it makes.         *)
(* A blocking call inside a handler (the PIN prompt, the wait for the      *)
(* subprocess) is part of the handler's action: its result is chosen when  *)
(* the handler runs.                                                       *)
(***************************************************************************)
EXTENDS Naturals, Integers, Sequences, FiniteSets, TLC

VARIABLES
    srv,        \* position of the server in showProcess: "init" | "loop" | "exited" | "crashed"
    argv,       \* the files on the server's own command line (argc = Len(argv))
    argi,       \* number of own command-line files already passed to processAddFile
    v,          \* ctx.v: the job queue, a sequence of tProcCtx
    cap,        \* capacity of the buffer of ctx.v
    vi,         \* ctx.vi: cursor (0-based index into v)
    proc,       \* ctx.proc: "null" | "live" (= &v[vi]) | "dangling" (into a released buffer)
    h,          \* ctx.h: bucket -> chain of [key, data], for the buckets in use
    rc,         \* heap of tRcIniConfigBase objects: sequence of [refCount, cert]
    hProc,      \* ctx.hProc: 0 (NULL) or the job whose subprocess handle it is
    hProcRead,  \* ctx.hProcRead: 0 (INVALID_HANDLE_VALUE) or the job whose capture pipe it is
    open,       \* handles of subprocesses and capture pipes not closed yet: <<kind, job>>
    reads,      \* capture pipes with a pending ReadFileEx (jobs, 1-based)
    dec,        \* [utf8, outputLen, lastChar]: decoder state of ctx
    ipc,        \* [hPipe, waitForClient, buf, state, cfg, signApp, cfgBase, rd]: IPC part of ctx
    pipe,       \* the named pipe instance as the operating system sees it
    cl,         \* the other invocations: sequence of [pc, tries, image, frame, k]; image and
                \* frame are their inputs, pc their position: "new" | "try" | "connected" |
                \* "done" | "failed" | "fatal" | "server"
    ev          \* what the last handler did: sequence of [t, a, b]

vars == <<srv, argv, argi, v, cap, vi, proc, h, rc, hProc, hProcRead, open, reads, dec, ipc, pipe, cl, ev>>

(***************************************************************************)
(* Bounds of the model.                                                    *)
(***************************************************************************)
\* Number of files on the server's own command line (argc of showProcess).
MaxArgs == 2
\* Number of existing files (jobs that can be started) in a run.
MaxJobs == 3
\* Number of further invocations started while the model runs.
MaxClients == 1
\* Initial capacity the vector reserves on its first push.  The source
\* reserves LIBPCF_VEC_INIT_CAPACITY = 16 elements (vector.c:17) and doubles
\* from there; the model keeps the doubling and starts from this bound so
\* that a relocation happens within the pushes of a run.
VecInitCapacity == 3
\* Number of chunks of output one subprocess writes at most.
MaxChildOut == 1
\* Number of code points after which the log of a job is cut.  The source cuts
\* at PROCESS_MAX_OUTPUT = 1024 * 1024.
ProcessMaxOutput == 4
\* Size in bytes of ctx.buf.  The source has MAX_CONFIG_STR_LEN *
\* sizeof(wchar_t) = 8192 bytes.
IpcBufSize == 12

(***************************************************************************)
(* Program constants.                                                      *)
(***************************************************************************)
PST_IDLE == "idle"
PST_RUNNING == "running"
PST_OK == "ok"
PST_FAIL == "fail"
PST_FILE_NOT_FOUND == "file_not_found"
PST_BROKEN_PIPE == "broken_pipe"
PST_APP_NOT_FOUND == "app_not_found"
PST_PIN_MISSING == "pin_missing"
PST_PIN_WRONG == "pin_wrong"
tProcState == {PST_IDLE, PST_RUNNING, PST_OK, PST_FAIL, PST_FILE_NOT_FOUND,
               PST_BROKEN_PIPE, PST_APP_NOT_FOUND, PST_PIN_MISSING, PST_PIN_WRONG}

IST_CERT_ID == "cert_id"
IST_CARD_NAME == "card_name"
IST_CARD_READER == "card_reader"
IST_SIGN_APP == "sign_app"
IST_FILE == "file"

UTF8_ERROR == 65533
\* 0xFFFFFFFF as uint32_t, i.e. (uint32_t)(-1): no code point.
UTF8_MORE == -1
\* The NULL pointer where a string is expected: no sequence of code units.
NULL == <<-1>>

\* ctx.h = hto_create(sizeof(DATA_BLOB), 64, ...): size of the base table.
HTableSize == 64
\* showProcess: for (size_t i = 0; i < 3; ++i), the create-then-connect attempts.
IpcTries == 3
\* processStart: cmdBuf = usb_create(1024), the characters of one buffer element.
UsbBufSize == 1024

(***************************************************************************)
(* Strings are sequences of UTF-16 code units (without the terminator).    *)
(* The inputs of the model: the server's own configuration and command     *)
(* line, the frames other invocations send, what the user types, what the  *)
(* card accepts and which files exist.                                     *)
(***************************************************************************)
Min(a, b) == IF a < b THEN a ELSE b

CertA == [certId |-> <<1>>, cardName |-> <<1>>, cardReader |-> <<2>>]
\* Differs from CertA in two fields and hashes to the same bucket (a chain in ctx.h).
CertB == [certId |-> <<1>>, cardName |-> <<2>>, cardReader |-> <<1>>]
\* "%1%2": the PIN travels in the command line.
TplArg == <<37, 49, 37, 50>>
\* "%1": the PIN travels through the standard input of the subprocess.
TplStdin == <<37, 49>>
\* Absolute paths start with a backslash; the current directory is "\".
FileF == <<92, 102>>
FileG == <<92, 103>>
ExistingFiles == {FileF}
\* What the user can type into the credential prompt, and what the card accepts.
PinGood == <<49>>
PinBad == <<50>>
UserPins == {PinGood, PinBad}
CardPin == PinGood

\* The server's own tIniConfig (c of showProcess) and the files it may be given.
LocalCert == CertA
LocalSignApp == TplStdin
LocalFiles == {<<102>>, <<103>>}

\* The requests other invocations may send: their tIniConfig and their argv
\* (no files: the invocation connects and leaves).
Frames ==
    { [cert |-> CertA, signApp |-> TplArg, files |-> <<>>],
      [cert |-> CertA, signApp |-> TplArg, files |-> <<FileF>>],
      [cert |-> CertB, signApp |-> TplArg, files |-> <<FileF, FileF>>] }
\* The request an invocation started from another image sends.
ForeignFrame == [cert |-> CertA, signApp |-> TplArg, files |-> <<FileF>>]
\* The chunks of output a subprocess may write.
ChildChunks == {<<65, 10>>, <<195>>}
\* The numbers of bytes a read on the IPC pipe may deliver when avail bytes
\* are there and fit: ReadFileEx hands over what the pipe holds.
ReadSizes(avail) == {avail}

(***************************************************************************)
(* The world a handler works on: the variables as one record, plus ret,    *)
(* the value the function called last returned.                            *)
(***************************************************************************)
World ==
    [srv |-> srv, argi |-> argi, v |-> v, cap |-> cap, vi |-> vi, proc |-> proc,
     h |-> h, rc |-> rc, hProc |-> hProc, hProcRead |-> hProcRead, reads |-> reads,
     open |-> open,
     dec |-> dec, ipc |-> ipc, pipe |-> pipe, cl |-> cl, ev |-> <<>>, ret |-> TRUE]

Becomes(w) ==
    /\ srv' = w.srv /\ argv' = argv /\ argi' = w.argi /\ v' = w.v /\ cap' = w.cap /\ vi' = w.vi
    /\ proc' = w.proc /\ h' = w.h /\ rc' = w.rc /\ hProc' = w.hProc
    /\ hProcRead' = w.hProcRead /\ open' = w.open /\ reads' = w.reads /\ dec' = w.dec
    /\ ipc' = w.ipc
    /\ pipe' = w.pipe /\ cl' = w.cl /\ ev' = w.ev

Ret(w, r) == [w EXCEPT !.ret = r]
Event(w, t, a, b) == [w EXCEPT !.ev = Append(@, [t |-> t, a |-> a, b |-> b])]

\* An asynchronous operation is started on a handle (0: the IPC pipe, k > 0:
\* the capture pipe of job k); when another one is pending on it already
\* the event "overlap" records the handle.
Overlap(w, pending, handle) ==
    IF pending THEN Event(w, "overlap", 0, <<handle>>) ELSE w

(***************************************************************************)
(* tRcIniConfigBase: reference counted identity objects (siguwi-ini.c).    *)
(* An object is its index in rc; 0 is the NULL pointer.                    *)
(***************************************************************************)
\* calloc/wcsdup may fail: the caller then sees NULL (ret = 0).
rcIniConfigBaseCreate(w, c) ==
    { [w EXCEPT !.rc = Append(@, [refCount |-> 1, cert |-> c]),
                !.ret = Len(w.rc) + 1],
      Ret(w, 0) }

\* An rcIniConfigBaseClone that hands the pointer out without counting it.
rcIniConfigBaseCloneUncounted(w, c) ==
    IF c = 0 THEN Ret(w, 0) ELSE Ret(w, c)

rcIniConfigBaseClone(w, c) ==
    IF c = 0 THEN Ret(w, 0)
    ELSE [w EXCEPT !.rc[c].refCount = @ + 1, !.ret = c]

\* An rcIniConfigBaseDelete that frees the object whatever its count is.
rcIniConfigBaseDeleteAlways(w, c) ==
    IF c = 0 THEN w
    ELSE [w EXCEPT !.rc[c] = [refCount |-> 0,
                              cert |-> [certId |-> NULL, cardName |-> NULL,
                                        cardReader |-> NULL]]]

rcIniConfigBaseDelete(w, c) ==
    IF c = 0 THEN w
    ELSE IF w.rc[c].refCount - 1 = 0
         THEN [w EXCEPT !.rc[c] = [refCount |-> 0,
                                   cert |-> [certId |-> NULL, cardName |-> NULL,
                                             cardReader |-> NULL]]]
         ELSE [w EXCEPT !.rc[c].refCount = @ - 1]

\* wcscmp(l, r) == 0
wcsEqual(l, r) == l = r

\* _CMP_PTR on two strings: the pointers are equal only for two NULLs or for the
\* same object; TRUE stands for the macro's "return 0" out of the function.
\* The result is <<decided, value>>.
CmpPtr(l, r) ==
    IF l = NULL /\ r = NULL THEN <<TRUE, 0>>
    ELSE IF l = NULL THEN <<TRUE, 1>>
    ELSE IF r = NULL THEN <<TRUE, -1>>
    ELSE IF ~wcsEqual(l, r) THEN <<TRUE, 1>>
    ELSE <<FALSE, 0>>

\* A comparison of the two pointers instead of the strings.
rcIniConfigBaseCmpPointers(w, lhs, rhs) == IF lhs = rhs THEN 0 ELSE 1

\* rcIniConfigBaseCmp on two live objects: 0 if equal.
rcIniConfigBaseCmp(w, lhs, rhs) ==
    IF lhs = rhs THEN 0
    ELSE LET l == w.rc[lhs].cert
             r == w.rc[rhs].cert
             c1 == CmpPtr(l.certId, r.certId)
             c2 == CmpPtr(l.cardName, r.cardName)
             c3 == CmpPtr(l.cardReader, r.cardReader)
         IN IF c1[1] THEN c1[2]
            ELSE IF c2[1] THEN c2[2]
            ELSE IF c3[1] THEN c3[2]
            ELSE 0

\* crc32Update over the code units of one string.  The table-driven CRC-32 of
\* the source is replaced by a running sum of 16 bits: what the table needs is
\* a function of the three strings, equal for equal strings, reduced modulo
\* the size of the table.
RECURSIVE crc32Update(_, _)
crc32Update(seed, str) ==
    IF str = <<>> THEN seed
    ELSE crc32Update((seed + Head(str)) % 65536, Tail(str))

rcIniConfigBaseHash(cert, limit) ==
    LET h1 == IF cert.certId = NULL THEN 65535 ELSE crc32Update(65535, cert.certId)
        h2 == IF cert.cardName = NULL THEN h1 ELSE crc32Update(h1, cert.cardName)
        h3 == IF cert.cardReader = NULL THEN h2 ELSE crc32Update(h2, cert.cardReader)
    IN (65535 - h3) % limit

(***************************************************************************)
(* tHTableO (htableo.c): ctx.h maps a bucket to its chain of elements      *)
(* [key, data]; data is the DATA_BLOB, NULL while pbData is NULL.          *)
(***************************************************************************)
RECURSIVE ChainFind(_, _, _, _)
\* Position in the chain of the first element whose key compares equal, 0 if none.
ChainFind(w, chain, key, i) ==
    IF i > Len(chain) THEN 0
    ELSE IF rcIniConfigBaseCmp(w, chain[i].key, key) = 0 THEN i
    ELSE ChainFind(w, chain, key, i + 1)

\* The chain of bucket b; h holds the buckets that are not empty.
Chain(w, b) == IF b \in DOMAIN w.h THEN w.h[b] ELSE <<>>

\* <<bucket, position>> of the element of key, position 0 if there is none.
hto_getKey(w, key) ==
    LET b == rcIniConfigBaseHash(w.rc[key].cert, HTableSize)
    IN <<b, ChainFind(w, Chain(w, b), key, 1)>>

\* Worlds after hto_addKey; ret is <<bucket, position>>, or <<0, 0>> for NULL.
hto_addKey(w, key) ==
    LET at == hto_getKey(w, key)
    IN IF at[2] # 0 THEN {Ret(w, at)}
       ELSE LET w1 == rcIniConfigBaseClone(w, key)
                b == at[1]
                new == Append(Chain(w, b), [key |-> key, data |-> NULL])
            IN { [w1 EXCEPT !.h = [x \in DOMAIN w.h \cup {b} |->
                                      IF x = b THEN new ELSE w.h[x]],
                            !.ret = <<b, Len(new)>>],
                 Ret(w, <<0, 0>>) }

(***************************************************************************)
(* tVector (vector.c): the queue.                                          *)
(***************************************************************************)
\* The capacity vec_pushBack asks vec_reserve for.
vec_growth(c) == IF c > 0 THEN c * 2 ELSE VecInitCapacity

\* vec_reserve moves the elements to a new buffer and frees the old one: a
\* pointer into the old buffer (ctx.proc) dangles from then on.
vec_reserve(w, size) ==
    IF size > w.cap
    THEN [w EXCEPT !.cap = size,
                   !.proc = IF w.cap > 0 /\ @ = "live" THEN "dangling" ELSE @,
                   !.ret = TRUE]
    ELSE Ret(w, TRUE)

\* A vec_pushBack that puts the new element in front of the others.
vec_pushBackFront(w, item) ==
    IF Len(w.v) >= w.cap
    THEN { [vec_reserve(w, vec_growth(w.cap)) EXCEPT !.v = <<item>> \o @],
           Ret(w, FALSE) }
    ELSE { [w EXCEPT !.v = <<item>> \o @, !.ret = TRUE] }

\* Worlds after vec_pushBack(ctx.v), the new element being item; ret = FALSE
\* when the allocation of the larger buffer failed.
vec_pushBack(w, item) ==
    IF Len(w.v) >= w.cap
    THEN { [vec_reserve(w, vec_growth(w.cap)) EXCEPT !.v = Append(@, item)],
           Ret(w, FALSE) }
    ELSE { [w EXCEPT !.v = Append(@, item), !.ret = TRUE] }

(***************************************************************************)
(* Process runner (siguwi-process.c) and PIN retrieval (siguwi-ini.c).     *)
(***************************************************************************)
\* Exit codes a signing subprocess may end with.
ExitCodes == {0, 1}

\* The pipe name without an instance.
NoPipe ==
    [st |-> "none", signaled |-> FALSE, peer |-> 0, peerOpen |-> FALSE, data |-> <<>>,
     verified |-> FALSE]

\* The server process dies (an access through a wild pointer): the operating
\* system closes its handles, the pipe name disappears.
Crash(w) ==
    [w EXCEPT !.srv = "crashed", !.reads = {}, !.open = {},
              !.ipc.hPipe = "closed", !.ipc.rd = FALSE,
              !.pipe = NoPipe, !.ret = FALSE]

\* The values a read of ctx->proc->state can give.  Through a pointer into a
\* released buffer the read is undefined: any value.
procStateReads(w) ==
    IF w.proc = "live" THEN {w.v[w.vi + 1].state} ELSE tProcState

\* ctx->proc->state = s.  Through a dangling pointer the store goes to the
\* released buffer and the element of the queue keeps its state.
SetProcState(w, s) ==
    IF w.proc = "live" THEN [w EXCEPT !.v[w.vi + 1].state = s] ELSE w

\* usb_add(ctx->proc->output, str)
AddOutput(w, str) ==
    [w EXCEPT !.v[w.vi + 1].output = @ \o str]

\* CryptProtectData / CryptUnprotectData on a sequence of code units: an
\* encoding of each unit and its inverse.
CryptProtectData(raw) == [i \in 1..Len(raw) |-> (raw[i] + 7) % 65536]
CryptUnprotectData(blob) == [i \in 1..Len(blob) |-> (blob[i] + 65529) % 65536]

\* The provider's verdict on the bytes iniConfigValidatePin hands it: bPin[i] =
\* (BYTE)(pin[i]).
iniConfigValidatePin(pin) ==
    [i \in 1..Len(pin) |-> pin[i] % 256] = CardPin

\* An iniConfigGetPin that protects and returns what was typed without asking
\* the card.
iniConfigGetPinUnvalidated(w, j) ==
    { Ret(w, [res |-> FALSE, pin |-> NULL]) }
    \cup
    { Ret(Event(w, "prompt", j, p), [res |-> TRUE, pin |-> CryptProtectData(p \o <<0>>)])
      : p \in UserPins }

\* An iniConfigGetPin that protects the typed PIN into *pin before it asks the
\* card, so that a rejected PIN leaves its blob behind.
iniConfigGetPinProtectFirst(w, j) ==
    { Ret(w, [res |-> FALSE, pin |-> NULL]) }
    \cup
    { Ret(Event(w, "prompt", j, NULL), [res |-> FALSE, pin |-> NULL]) }
    \cup
    { IF iniConfigValidatePin(p)
      THEN Ret(Event(w, "prompt", j, p),
               [res |-> TRUE, pin |-> CryptProtectData(p \o <<0>>)])
      ELSE Ret(Event(Event(w, "prompt", j, p), "residue", j, p),
               [res |-> TRUE, pin |-> CryptProtectData(p \o <<0>>)])
      : p \in UserPins }

\* An iniConfigGetPin that goes on to the prompt when the status of the card
\* could not be read.
iniConfigGetPinIgnoreStatus(w, j) ==
    { Ret(Event(Event(w, "nocard", j, <<>>), "prompt", j, NULL),
          [res |-> FALSE, pin |-> NULL]) }
    \cup
    { IF iniConfigValidatePin(p)
      THEN Ret(Event(Event(w, "nocard", j, <<>>), "prompt", j, p),
               [res |-> TRUE, pin |-> CryptProtectData(p \o <<0>>)])
      ELSE Ret(Event(Event(w, "prompt", j, p), "residue", j, p),
               [res |-> TRUE, pin |-> NULL])
      : p \in UserPins }

\* Worlds after iniConfigGetPin(ctx->proc->config->cert, hWnd, pin) for job j;
\* ret = [res, pin] with pin the blob written to *pin (NULL: left zeroed).
iniConfigGetPin(w, j) ==
    \* iniConfigGetCardStatus failed: no prompt
    { Ret(Event(w, "nocard", j, <<>>), [res |-> FALSE, pin |-> NULL]) }
    \cup
    \* CredUIPromptForWindowsCredentials cancelled
    { Ret(Event(w, "prompt", j, NULL), [res |-> FALSE, pin |-> NULL]) }
    \cup
    \* the user typed p
    { IF iniConfigValidatePin(p)
      THEN Ret(Event(w, "prompt", j, p),
               [res |-> TRUE, pin |-> CryptProtectData(p \o <<0>>)])
      \* goto onError jumps over SecureZeroMemory(rawPin, sizeof(rawPin))
      ELSE Ret(Event(Event(w, "prompt", j, p), "residue", j, p),
               [res |-> TRUE, pin |-> NULL])
      : p \in UserPins }

\* A command-line build that expands only %1 and %2 and copies every other
\* character, the % of another escape included.
RECURSIVE BuildCmdKeepPercent(_, _, _, _, _, _)
BuildCmdKeepPercent(tpl, path, pin, esc, acc, hasPinArg) ==
    IF tpl = <<>> THEN [cmd |-> acc, hasPinArg |-> hasPinArg]
    ELSE LET ch == Head(tpl)
             rest == Tail(tpl)
         IN IF esc /\ ch = 49
            THEN BuildCmdKeepPercent(rest, path, pin, FALSE, acc \o path, hasPinArg)
            ELSE IF esc /\ ch = 50
            THEN BuildCmdKeepPercent(rest, path, pin, FALSE, acc \o pin, TRUE)
            ELSE IF ~esc /\ ch = 37
            THEN BuildCmdKeepPercent(rest, path, pin, TRUE, acc, hasPinArg)
            ELSE BuildCmdKeepPercent(rest, path, pin, FALSE,
                                     (IF esc THEN Append(acc, 37) ELSE acc) \o <<ch>>,
                                     hasPinArg)

\* The command line built from the template: [cmd, hasPinArg].
RECURSIVE BuildCmd(_, _, _, _, _, _)
BuildCmd(tpl, path, pin, esc, acc, hasPinArg) ==
    IF tpl = <<>> THEN [cmd |-> acc, hasPinArg |-> hasPinArg]
    ELSE LET ch == Head(tpl)
             rest == Tail(tpl)
         IN IF esc /\ ch = 49 THEN BuildCmd(rest, path, pin, FALSE, acc \o path, hasPinArg)
            ELSE IF esc /\ ch = 50 THEN BuildCmd(rest, path, pin, FALSE, acc \o pin, TRUE)
            ELSE IF ~esc /\ ch = 37 THEN BuildCmd(rest, path, pin, TRUE, acc, hasPinArg)
            ELSE BuildCmd(rest, path, pin, FALSE, Append(acc, ch), hasPinArg)

\* What usb_wipe(sb) leaves readable of the content str of a string buffer
\* with elements of UsbBufSize characters: it zeroes and frees the elements
\* behind the first one, and the first element keeps its characters until
\* usb_delete frees it.
usb_wipe(str) ==
    IF Len(str) <= UsbBufSize THEN str ELSE SubSeq(str, 1, UsbBufSize)

\* WideCharToMultiByte(CP_UTF8) of code units below U+0800.
RECURSIVE wToUtf8(_)
wToUtf8(str) ==
    IF str = <<>> THEN <<>>
    ELSE LET u == Head(str)
         IN (IF u < 128 THEN <<u>> ELSE <<192 + (u \div 64), 128 + (u % 64)>>)
            \o wToUtf8(Tail(str))

\* A processStart that marks the job running on entry, before anything can
\* fail.
StartFailsViaRunning(w, st) ==
    Ret(SetProcState([Event(w, "running", w.vi + 1, <<>>)
                         EXCEPT !.open = @ \ {<<"proc", w.hProc>>, <<"pipe", w.hProcRead>>},
                                !.hProc = 0, !.hProcRead = 0], st), FALSE)

\* onError of processStart with newState = st: closeHandlePtr closes what
\* ctx->hProc and ctx->hProcRead hold at that point.
StartFails(w, st) ==
    Ret(SetProcState([w EXCEPT !.open = @ \ {<<"proc", w.hProc>>, <<"pipe", w.hProcRead>>},
                               !.hProc = 0, !.hProcRead = 0], st), FALSE)

\* Worlds after processReadAsync: the read is pending, or ReadFileEx failed
\* (no handle, or the subprocess closed its end already).
processReadAsync(w) ==
    IF w.proc = "null" THEN {Ret(w, FALSE)}
    ELSE (IF w.hProcRead = 0 THEN {}
          ELSE {[Overlap(w, w.hProcRead \in w.reads, w.hProcRead)
                     EXCEPT !.reads = @ \cup {w.hProcRead}, !.ret = TRUE]})
         \cup {Ret(w, FALSE)}

\* A processFinish that does not look at the exit code.
processFinishAnyCode(w) ==
    IF w.proc = "null" THEN {Ret(w, FALSE)}
    ELSE IF w.hProc = 0 THEN {Ret(SetProcState(w, PST_FAIL), FALSE)}
    ELSE LET k == w.hProc
             codes == IF w.v[k].child.st = "exited" THEN {w.v[k].child.code} ELSE ExitCodes
         IN { [SetProcState([w EXCEPT !.v[k].child.st = "exited", !.v[k].child.code = c],
                            PST_OK)
                 EXCEPT !.proc = "null", !.ret = TRUE]
              : c \in codes }

\* Worlds after processFinish: WaitForSingleObject returns when the subprocess
\* of ctx.hProc has exited.
processFinish(w) ==
    IF w.proc = "null" THEN {Ret(w, FALSE)}
    ELSE IF w.hProc = 0 THEN {Ret(SetProcState(w, PST_FAIL), FALSE)}
    ELSE LET k == w.hProc
             codes == IF w.v[k].child.st = "exited" THEN {w.v[k].child.code} ELSE ExitCodes
         IN { LET w1 == [w EXCEPT !.v[k].child.st = "exited", !.v[k].child.code = c]
              IN IF c # 0
                 THEN Ret(SetProcState(AddOutput(w1, <<13, 10, 69, 48 + c>>), PST_FAIL), FALSE)
                 ELSE [SetProcState(w1, PST_OK) EXCEPT !.proc = "null", !.ret = TRUE]
              : c \in codes }
         \cup (IF w.proc = "dangling" THEN {Crash(w)} ELSE {})

\* A scan that starts behind the cursor: for (i = ctx->vi + 1; ...).
NextIdleAfter(w, i) ==
    LET idle == {k \in (i + 1)..(Len(w.v) - 1) : w.v[k + 1].state = PST_IDLE}
    IN IF idle = {} THEN -1 ELSE CHOOSE k \in idle : \A o \in idle : k <= o

\* A scan that takes the last idle job instead of the first one.
NextIdleLast(w, i) ==
    LET idle == {k \in i..(Len(w.v) - 1) : w.v[k + 1].state = PST_IDLE}
    IN IF idle = {} THEN -1 ELSE CHOOSE k \in idle : \A o \in idle : o <= k

\* The index (0-based) processNext selects: the first idle job from ctx.vi on,
\* or -1 if there is none.
RECURSIVE NextIdle(_, _)
NextIdle(w, i) ==
    IF i >= Len(w.v) THEN -1
    ELSE IF w.v[i + 1].state = PST_IDLE THEN i
    ELSE NextIdle(w, i + 1)

\* The guard of processNext: nothing is started while the current job runs.
processNextBlocked(w, st) == w.proc # "null" /\ st = PST_RUNNING

RECURSIVE processNext(_)
RECURSIVE processStart(_)

\* processStart from "get and cache pin" on, for the live job j with the
\* decrypted PIN raw (with its terminator).
StartSpawn(w, j, raw) ==
    LET job == w.v[j]
        pin == SubSeq(raw, 1, Len(raw) - 1)
        b == BuildCmd(job.signApp, job.path, pin, FALSE, <<>>, FALSE)
        \* usb_wipe(cmdBuf); usb_delete(cmdBuf)
        built == Event(w, "residue", j, usb_wipe(b.cmd))
        spawned == Event([built EXCEPT !.v[j].child = [st |-> "alive", cmd |-> b.cmd,
                                                   stdin |-> NULL, code |-> 0, n |-> 0],
                                   !.hProc = j, !.open = @ \cup {<<"proc", j>>}],
                         "spawn", j, pin)
        fed == IF b.hasPinArg THEN spawned
               ELSE [spawned EXCEPT !.v[j].child.stdin = wToUtf8(pin)]
        running == Event(SetProcState([fed EXCEPT !.dec = [rem |-> 0, cp |-> 0,
                                                           outputLen |-> 0,
                                                           lastChar |-> 0]],
                                      PST_RUNNING),
                         "running", j, <<>>)
    IN \* usb_create failed
       { StartFails(w, PST_FAIL) }
       \cup
       \* usb_get failed
       { StartFails(built, PST_FAIL) }
       \cup
       \* CreateProcessW failed
       { StartFails(built, PST_APP_NOT_FOUND) }
       \cup
       \* the PIN could not be written to the standard input of the subprocess
       (IF b.hasPinArg THEN {} ELSE { StartFails(spawned, PST_PIN_MISSING) })
       \cup
       UNION { IF wr.ret THEN {wr}
               ELSE UNION { processNext(wf) : wf \in processFinish(wr) }
               : wr \in processReadAsync(running) }

\* processStart at "get and cache pin" for the live job j.
StartPin(w, j) ==
    LET Decode(wd, blob) ==
            LET raw == CryptUnprotectData(blob)
            IN IF Len(raw) < 1 \/ raw[Len(raw)] # 0
               THEN { StartFails(wd, PST_PIN_WRONG) }
               ELSE StartSpawn(wd, j, raw)
        AfterGet(wg, at) ==
            IF ~wg.ret.res THEN { StartFails(wg, PST_PIN_MISSING) }
            ELSE IF wg.ret.pin = NULL THEN { StartFails(wg, PST_PIN_WRONG) }
            ELSE Decode([wg EXCEPT !.h[at[1]][at[2]].data = wg.ret.pin], wg.ret.pin)
        WithEntry(wk) ==
            LET at == wk.ret
            IN IF at = <<0, 0>> THEN { StartFails(wk, PST_PIN_WRONG) }
               ELSE IF wk.h[at[1]][at[2]].data = NULL
                    THEN UNION { AfterGet(wg, at) : wg \in iniConfigGetPin(wk, j) }
                    ELSE Decode(wk, wk.h[at[1]][at[2]].data)
    IN UNION { WithEntry(wk) : wk \in hto_addKey(w, w.v[j].config) }

processStart(w) ==
    IF w.proc = "null" THEN {Ret(w, FALSE)}
    ELSE IF w.proc = "dangling"
         \* config, signApp and state are read from the released buffer
         THEN {Ret(w, FALSE), Crash(w)}
    ELSE LET j == w.vi + 1
             \* ctx->hProc = NULL; ctx->hProcRead = INVALID_HANDLE_VALUE: the
             \* handles of the job before are dropped as they are
             fresh == [w EXCEPT !.hProc = 0, !.hProcRead = 0]
         IN IF w.v[j].config = 0 \/ w.v[j].signApp = NULL \/ w.v[j].state # PST_IDLE
            THEN {Ret(w, FALSE)}
            ELSE \* UuidToStringW failed
                 { Ret(SetProcState(w, PST_FAIL), FALSE) }
                 \cup
                 \* the capture pipe or the input pipe could not be set up
                 { StartFails(fresh, PST_BROKEN_PIPE) }
                 \cup
                 StartPin([fresh EXCEPT !.hProcRead = j,
                                        !.open = @ \cup {<<"pipe", j>>}], j)

processNext(w) ==
    UNION { IF processNextBlocked(w, st) THEN {Ret(w, FALSE)}
            ELSE LET i == NextIdle(w, w.vi)
                 IN IF i >= 0
                    THEN processStart([w EXCEPT !.proc = "live", !.vi = i])
                    ELSE processStart(w)
            : st \in procStateReads(w) }

\* GetFullPathNameW with the current directory "\".
wToFullPath(path) ==
    IF path = <<>> THEN path
    ELSE IF Head(path) = 92 THEN path
    ELSE <<92>> \o path

wFileExists(path) == path \in ExistingFiles

\* A processAddFile that does not look whether the file exists.
processAddFileStateUnchecked(path) == PST_IDLE

\* The state processAddFile gives the new job.
processAddFileState(path) ==
    IF wFileExists(path) THEN PST_IDLE ELSE PST_FILE_NOT_FOUND

\* Worlds after processAddFile(ctx, c, signApp, path); ret = FALSE after an
\* allocation failed.
processAddFile(w, c, signApp, path) ==
    LET full == wToFullPath(path)
        w1 == rcIniConfigBaseClone(w, c)
        item == [state |-> processAddFileState(full), config |-> c, signApp |-> signApp,
                 path |-> full, output |-> <<>>,
                 child |-> [st |-> "none", cmd |-> NULL, stdin |-> NULL, code |-> 0, n |-> 0]]
    IN UNION { IF wp.ret
               THEN { Ret(wn, TRUE) : wn \in processNext(wp) }
               ELSE { Ret(w, FALSE) }
               : wp \in vec_pushBack(w1, item) }

(***************************************************************************)
(* Output of the subprocess: utf8_parse (utf8.c) and the decode loop of    *)
(* processHandleReadComplete.                                              *)
(***************************************************************************)
\* A utf8_parse that stays inside the sequence after a byte that is no
\* continuation byte.
utf8_parseKeepRem(ctx, b) ==
    IF ctx.rem = 0
    THEN IF b <= 127 THEN [rem |-> 0, cp |-> ctx.cp, ret |-> b]
         ELSE IF b \div 32 = 6 THEN [rem |-> 1, cp |-> b % 32, ret |-> UTF8_MORE]
         ELSE IF b \div 16 = 14 THEN [rem |-> 2, cp |-> b % 16, ret |-> UTF8_MORE]
         ELSE IF b \div 8 = 30 THEN [rem |-> 3, cp |-> b % 8, ret |-> UTF8_MORE]
         ELSE [rem |-> 0, cp |-> ctx.cp, ret |-> UTF8_ERROR]
    ELSE IF b \div 64 # 2 THEN [rem |-> ctx.rem, cp |-> ctx.cp, ret |-> UTF8_ERROR]
         ELSE LET cp == ctx.cp * 64 + (b % 64)
              IN [rem |-> ctx.rem - 1, cp |-> cp,
                  ret |-> IF ctx.rem - 1 = 0 THEN cp ELSE UTF8_MORE]

\* utf8_parse(ctx, b): [rem, cp] is the context afterwards, ret the result.
utf8_parse(ctx, b) ==
    IF ctx.rem = 0
    THEN IF b <= 127 THEN [rem |-> 0, cp |-> ctx.cp, ret |-> b]
         ELSE IF b \div 32 = 6 THEN [rem |-> 1, cp |-> b % 32, ret |-> UTF8_MORE]
         ELSE IF b \div 16 = 14 THEN [rem |-> 2, cp |-> b % 16, ret |-> UTF8_MORE]
         ELSE IF b \div 8 = 30 THEN [rem |-> 3, cp |-> b % 8, ret |-> UTF8_MORE]
         ELSE [rem |-> 0, cp |-> ctx.cp, ret |-> UTF8_ERROR]
    ELSE IF b \div 64 # 2 THEN [rem |-> 0, cp |-> ctx.cp, ret |-> UTF8_ERROR]
         ELSE LET cp == ctx.cp * 64 + (b % 64)
              IN [rem |-> ctx.rem - 1, cp |-> cp,
                  ret |-> IF ctx.rem - 1 = 0 THEN cp ELSE UTF8_MORE]

\* An encoding that takes the ten high bits of the code point itself.
OutputUnitsNoOffset(cp, lastChr) ==
    IF cp < 65536
    THEN (IF cp = 10 /\ lastChr # 13 THEN <<13>> ELSE <<>>)
         \o (IF cp # 0 THEN <<cp>> ELSE <<>>)
    ELSE <<(cp \div 1024) + 55296, (cp % 1024) + 56320>>

\* The code units one decoded code point adds to the log.
OutputUnits(cp, lastChr) ==
    IF cp < 65536
    THEN (IF cp = 10 /\ lastChr # 13 THEN <<13>> ELSE <<>>)
         \o (IF cp # 0 THEN <<cp>> ELSE <<>>)
    ELSE <<((cp - 65536) \div 1024) + 55296, ((cp - 65536) % 1024) + 56320>>

\* A decode loop that does not stop at PROCESS_MAX_OUTPUT.
RECURSIVE DecodeOutputNoCap(_, _, _)
DecodeOutputNoCap(d, out, bytes) ==
    IF bytes = <<>> THEN [dec |-> d, out |-> out]
    ELSE LET r == utf8_parse(d, Head(bytes))
             d1 == [d EXCEPT !.rem = r.rem, !.cp = r.cp]
         IN IF r.ret = UTF8_MORE THEN DecodeOutputNoCap(d1, out, Tail(bytes))
            ELSE LET cp == IF r.ret > 1114111 THEN UTF8_ERROR ELSE r.ret
                 IN DecodeOutputNoCap([d1 EXCEPT !.lastChar = cp, !.outputLen = @ + 1],
                                      out \o OutputUnits(cp, d.lastChar), Tail(bytes))

\* The for loop over the bytes of one chunk; d = [rem, cp, outputLen,
\* lastChar], out the code units added so far.
RECURSIVE DecodeOutput(_, _, _)
DecodeOutput(d, out, bytes) ==
    IF bytes = <<>> \/ d.outputLen >= ProcessMaxOutput THEN [dec |-> d, out |-> out]
    ELSE LET r == utf8_parse(d, Head(bytes))
             d1 == [d EXCEPT !.rem = r.rem, !.cp = r.cp]
         IN IF r.ret = UTF8_MORE THEN DecodeOutput(d1, out, Tail(bytes))
            ELSE LET cp == IF r.ret > 1114111 THEN UTF8_ERROR ELSE r.ret
                 IN DecodeOutput([d1 EXCEPT !.lastChar = cp, !.outputLen = @ + 1],
                                 out \o OutputUnits(cp, d.lastChar), Tail(bytes))

\* "The output has been truncated here." (its first unit stands for the text)
TruncNote == <<13, 10, 84>>

\* onError of processHandleReadComplete: processFinish, then processNext.
processReadDone(w) ==
    UNION { processNext(wf) : wf \in processFinish(w) }

\* A processHandleReadComplete that starts every chunk with a fresh decoder
\* context and no last character.
processHandleReadCompleteFresh(w, k, err, bytes) ==
    LET w0 == [w EXCEPT !.reads = @ \ {k}]
    IN IF err = 0 /\ Len(bytes) > 0 /\ w0.proc # "null"
       THEN LET r == DecodeOutput([w0.dec EXCEPT !.rem = 0, !.cp = 0, !.lastChar = 0],
                                  <<>>, bytes)
                added == r.dec.outputLen > w0.dec.outputLen
                note == IF added /\ r.dec.outputLen >= ProcessMaxOutput
                        THEN TruncNote ELSE <<>>
                w1 == AddOutput([w0 EXCEPT !.dec = r.dec], r.out \o note)
            IN UNION { IF wr.ret THEN {wr} ELSE processReadDone(wr)
                       : wr \in processReadAsync(w1) }
       ELSE processReadDone(w0)

\* Worlds after processHandleReadComplete for the read on capture pipe k that
\* completed with error code err and the bytes read.
processHandleReadComplete(w, k, err, bytes) ==
    LET w0 == [w EXCEPT !.reads = @ \ {k}]
    IN IF err = 0 /\ Len(bytes) > 0 /\ w0.proc # "null"
       THEN LET r == DecodeOutput(w0.dec, <<>>, bytes)
                added == r.dec.outputLen > w0.dec.outputLen
                note == IF added /\ r.dec.outputLen >= ProcessMaxOutput
                        THEN TruncNote ELSE <<>>
                w1 == AddOutput([w0 EXCEPT !.dec = r.dec], r.out \o note)
            IN UNION { IF wr.ret THEN {wr} ELSE processReadDone(wr)
                       : wr \in processReadAsync(w1) }
               \cup (IF w0.proc = "dangling" THEN {Crash(w0)} ELSE {})
       ELSE processReadDone(w0)

(***************************************************************************)
(* The IPC server side (siguwi-process.c).  A string travels as its UTF-16 *)
(* code units, low byte first, followed by a zero code unit.               *)
(***************************************************************************)
RECURSIVE WcsBytesHighFirst(_)
\* The bytes of the code units of str, high byte first.
WcsBytesHighFirst(str) ==
    IF str = <<>> THEN <<>>
    ELSE <<Head(str) \div 256, Head(str) % 256>> \o WcsBytesHighFirst(Tail(str))

RECURSIVE WcsBytes(_)
\* The bytes of the code units of str (without the terminator).
WcsBytes(str) ==
    IF str = <<>> THEN <<>>
    ELSE <<Head(str) % 256, Head(str) \div 256>> \o WcsBytes(Tail(str))

\* The code unit at position i (1-based) of a byte buffer read as wchar_t[].
WcharAt(buf, i) == buf[2 * i - 1] + 256 * buf[2 * i]

\* Position of the first zero code unit among the first n units, 0 if none.
RECURSIVE FindNul(_, _, _)
FindNul(buf, i, n) ==
    IF i > n THEN 0
    ELSE IF WcharAt(buf, i) = 0 THEN i
    ELSE FindNul(buf, i + 1, n)

\* wcsdup: the copy, or NULL when the allocation fails.
wcsdup(str) == {str, NULL}

EmptyCfg == [certId |-> NULL, cardName |-> NULL, cardReader |-> NULL]
\* An invocation that has not started yet has no request.
NoFrame == [cert |-> EmptyCfg, signApp |-> NULL, files |-> <<>>]

DisconnectNamedPipe(w) ==
    IF w.ipc.hPipe = "open"
    THEN [w EXCEPT !.pipe = [NoPipe EXCEPT !.st = "disconnected"]]
    ELSE w

\* closeHandlePtr(&ctx->hPipe): the instance, the only one, is gone.
CloseIpcPipe(w) ==
    IF w.ipc.hPipe = "open"
    THEN [w EXCEPT !.ipc.hPipe = "closed", !.pipe = NoPipe]
    ELSE w

\* An ipcReadAsync that reads to the start of ctx.buf: what was buffered and
\* not yet decoded is overwritten.
ipcReadAsyncFromStart(w) ==
    LET w1 == [w EXCEPT !.ipc.waitForClient = FALSE, !.ipc.buf = <<>>]
    IN IF /\ w1.ipc.hPipe = "open"
          /\ w1.pipe.st = "connected"
          /\ (w1.pipe.peerOpen \/ w1.pipe.data # <<>>)
       THEN { [w1 EXCEPT !.ipc.rd = TRUE, !.ret = TRUE] }
       ELSE { Ret(w1, FALSE) }

\* Worlds after ipcReadAsync.  ReadFileEx fails on a pipe whose client has
\* closed its end and left nothing to read (ERROR_BROKEN_PIPE).
ipcReadAsync(w) ==
    LET w1 == [w EXCEPT !.ipc.waitForClient = FALSE]
    IN IF /\ w1.ipc.hPipe = "open"
          /\ w1.pipe.st = "connected"
          /\ (w1.pipe.peerOpen \/ w1.pipe.data # <<>>)
       THEN { [Overlap(w1, w1.ipc.rd, 0) EXCEPT !.ipc.rd = TRUE, !.ret = TRUE] }
       ELSE { Ret(w1, FALSE) }

\* An ipcListen that leaves ctx.bufLen as it is.
ipcListenKeepBuf(w) ==
    LET w1 == rcIniConfigBaseDelete(
                  [w EXCEPT !.ipc.state = IST_CERT_ID,
                            !.ipc.cfg = EmptyCfg, !.ipc.signApp = NULL],
                  w.ipc.cfgBase)
        w2 == [w1 EXCEPT !.ipc.cfgBase = 0]
    IN IF w2.ipc.hPipe # "open" THEN { Ret(w2, FALSE) }
       ELSE IF w2.pipe.st \in {"fresh", "disconnected"}
            THEN { [Overlap(w2, w2.ipc.rd, 0)
                       EXCEPT !.pipe.st = "listening", !.pipe.signaled = FALSE,
                              !.ipc.waitForClient = TRUE, !.ret = TRUE] }
       ELSE IF w2.pipe.st = "connected" /\ w2.pipe.peerOpen
            THEN ipcReadAsync(w2)
       ELSE { Ret(w2, FALSE) }

\* An ipcListen that keeps the decoder where the last connection left it.
ipcListenKeepState(w) ==
    IF w.ipc.hPipe # "open" THEN { Ret(w, FALSE) }
    ELSE IF w.pipe.st \in {"fresh", "disconnected"}
         THEN { [w EXCEPT !.pipe.st = "listening", !.pipe.signaled = FALSE,
                          !.ipc.waitForClient = TRUE, !.ret = TRUE] }
    ELSE IF w.pipe.st = "connected" /\ w.pipe.peerOpen
         THEN ipcReadAsync(w)
    ELSE { Ret(w, FALSE) }

\* Worlds after ipcListen.  ConnectNamedPipe: ERROR_IO_PENDING on an instance
\* without client, ERROR_PIPE_CONNECTED when a client connected before the
\* call, ERROR_NO_DATA when that client has closed its end already.
ipcListen(w) ==
    LET w1 == rcIniConfigBaseDelete(
                  [w EXCEPT !.ipc.buf = <<>>, !.ipc.state = IST_CERT_ID,
                            !.ipc.cfg = EmptyCfg, !.ipc.signApp = NULL],
                  w.ipc.cfgBase)
        w2 == [w1 EXCEPT !.ipc.cfgBase = 0]
    IN IF w2.ipc.hPipe # "open" THEN { Ret(w2, FALSE) }
       ELSE IF w2.pipe.st \in {"fresh", "disconnected"}
            THEN { [Overlap(w2, w2.ipc.rd, 0)
                       EXCEPT !.pipe.st = "listening", !.pipe.signaled = FALSE,
                              !.ipc.waitForClient = TRUE, !.ret = TRUE] }
       ELSE IF w2.pipe.st = "connected" /\ w2.pipe.peerOpen
            THEN ipcReadAsync(w2)
       ELSE { Ret(w2, FALSE) }

\* The peer is running and was started from the same image.
ipcIsValidProcess(w) ==
    /\ w.ipc.hPipe = "open"
    /\ w.pipe.st = "connected"
    /\ w.cl[w.pipe.peer].pc = "connected"
    /\ w.cl[w.pipe.peer].image = "same"

\* onProtocolError of ipcHandleReadComplete / "wait for next client" of
\* showProcess; ret = FALSE when ipcListen failed.
ipcNextClient(w) ==
    ipcListen(Event(DisconnectNamedPipe(w), "disconnect", w.pipe.peer, <<>>))

\* The while loop of ipcHandleReadComplete; ret = "more" when it needs more
\* data, "onError" after a failed allocation or a failed processAddFile.
RECURSIVE ipcDecode(_)
ipcDecode(w) ==
    LET buf == w.ipc.buf
        pos == FindNul(buf, 1, Len(buf) \div 2)
    IN IF Len(buf) = 0 \/ pos = 0 THEN { Ret(w, "more") }
       ELSE LET start == [i \in 1..(pos - 1) |-> WcharAt(buf, i)]
                w1 == [w EXCEPT !.ipc.buf = SubSeq(buf, 2 * pos + 1, Len(buf))]
                Field(name, next) ==
                    UNION { IF d = NULL
                            THEN { Ret([w1 EXCEPT !.ipc.state = next], "onError") }
                            ELSE ipcDecode([w1 EXCEPT !.ipc.state = next,
                                                      !.ipc.cfg[name] = d])
                            : d \in wcsdup(start) }
            IN CASE w.ipc.state = IST_CERT_ID -> Field("certId", IST_CARD_NAME)
                 [] w.ipc.state = IST_CARD_NAME -> Field("cardName", IST_CARD_READER)
                 [] w.ipc.state = IST_CARD_READER -> Field("cardReader", IST_SIGN_APP)
                 [] w.ipc.state = IST_SIGN_APP ->
                      UNION { IF wc.ret = 0
                              THEN { Ret([w EXCEPT !.ipc.state = IST_FILE], "onError") }
                              ELSE ipcDecode([wc EXCEPT !.ipc.state = IST_FILE,
                                                        !.ipc.cfgBase = wc.ret,
                                                        !.ipc.signApp = start,
                                                        !.ipc.buf = w1.ipc.buf])
                              : wc \in rcIniConfigBaseCreate(w, w.ipc.cfg) }
                 [] w.ipc.state = IST_FILE ->
                      UNION { IF file = NULL THEN { Ret(w1, "onError") }
                              ELSE UNION { IF wa.ret THEN ipcDecode(wa)
                                           ELSE { Ret(wa, "onError") }
                                           : wa \in processAddFile(w1, w1.ipc.cfgBase,
                                                                   w1.ipc.signApp, file) }
                              : file \in wcsdup(start) }

\* An ipcHandleReadComplete that leaves through onError, not through
\* onProtocolError, when the read brought nothing.
ipcHandleReadCompleteClose(w, err, bytes) ==
    LET w0 == [w EXCEPT !.ipc.rd = FALSE]
        onError(we) == CloseIpcPipe(we)
        onProtocolError(wp) ==
            { IF wl.ret THEN wl ELSE onError(wl) : wl \in ipcNextClient(wp) }
    IN IF err = 0 /\ Len(bytes) > 0
       THEN UNION { IF wd.ret = "onError" THEN { onError(wd) }
                    ELSE UNION { IF wr.ret THEN {wr} ELSE onProtocolError(wr)
                                 : wr \in ipcReadAsync(wd) }
                    : wd \in ipcDecode([w0 EXCEPT !.ipc.buf = @ \o bytes]) }
       ELSE { onError(w0) }

\* Worlds after ipcHandleReadComplete for a read that completed with error
\* code err and the bytes read.
ipcHandleReadComplete(w, err, bytes) ==
    LET w0 == [w EXCEPT !.ipc.rd = FALSE]
        onError(we) == CloseIpcPipe(we)
        onProtocolError(wp) ==
            { IF wl.ret THEN wl ELSE onError(wl) : wl \in ipcNextClient(wp) }
    IN IF err = 0 /\ Len(bytes) > 0
       THEN UNION { IF wd.ret = "onError" THEN { onError(wd) }
                    ELSE UNION { IF wr.ret THEN {wr} ELSE onProtocolError(wr)
                                 : wr \in ipcReadAsync(wd) }
                    : wd \in ipcDecode([w0 EXCEPT !.ipc.buf = @ \o bytes]) }
       ELSE onProtocolError(w0)

(***************************************************************************)
(* The state after showProcess has initialised ctx and has created the     *)
(* first instance of the pipe: this invocation is the server.              *)
(***************************************************************************)
\* The command lines the server may have been started with.
ArgvInputs == UNION { [1..n -> LocalFiles] : n \in 0..MaxArgs }

\* What another invocation may be: its image and its request.
ClientInputs ==
    { [pc |-> "new", tries |-> 0, image |-> "same", frame |-> f, k |-> 0] : f \in Frames }
    \cup
    { [pc |-> "new", tries |-> 0, image |-> "foreign", frame |-> ForeignFrame, k |-> 0] }

RECURSIVE Existing(_)
\* Number of existing files in a list of paths.
Existing(paths) ==
    IF paths = <<>> THEN 0
    ELSE (IF wFileExists(wToFullPath(Head(paths))) THEN 1 ELSE 0) + Existing(Tail(paths))

RECURSIVE ExistingOf(_)
\* Number of existing files the invocations c have on their command lines.
ExistingOf(c) ==
    IF c = <<>> THEN 0 ELSE Existing(Head(c).frame.files) + ExistingOf(Tail(c))

\* ctx after its initialisation, whatever the inputs are.
InitCtx ==
    /\ srv = "init"
    /\ argi = 0
    /\ v = <<>>
    /\ cap = 0
    /\ vi = 0
    /\ proc = "null"
    /\ h = <<>>
    /\ rc = <<>>
    /\ hProc = 0
    /\ hProcRead = 0
    /\ open = {}
    /\ reads = {}
    /\ dec = [rem |-> 0, cp |-> 0, outputLen |-> 0, lastChar |-> 0]
    /\ ipc = [hPipe |-> "open", waitForClient |-> TRUE, buf |-> <<>>,
              state |-> IST_CERT_ID, cfg |-> EmptyCfg, signApp |-> NULL, cfgBase |-> 0,
              rd |-> FALSE]
    /\ pipe = [NoPipe EXCEPT !.st = "fresh"]
    /\ ev = <<>>

Init ==
    /\ InitCtx
    /\ argv \in ArgvInputs
    /\ cl \in [1..MaxClients -> ClientInputs]
    /\ Existing(argv) + ExistingOf(cl) <= MaxJobs

\* A pinBlobDelete that frees the blob as it is.
pinBlobDeleteAsIs(w, data) ==
    IF data = NULL THEN w ELSE Event(w, "LocalFree", 0, data)

\* pinBlobDelete: the blob is overwritten with zeros and freed; the event
\* "LocalFree" records what the memory holds when it is released.
pinBlobDelete(w, data) ==
    IF data = NULL THEN w
    ELSE Event(w, "LocalFree", 0, [i \in 1..Len(data) |-> 0])

\* onError / onSuccess of showProcess: the handles are closed, hto_traverse
\* visits the elements of ctx.h bucket by bucket with pinBlobDelete, hto_delete
\* destroys the table, the process ends.  The variables keep what the process
\* held at its end.
Exit(w) ==
    LET RECURSIVE Elements(_, _, _)
        Elements(wc, c, k) ==
            IF k > Len(c) THEN wc ELSE Elements(pinBlobDelete(wc, c[k].data), c, k + 1)
        RECURSIVE hto_traverse(_, _)
        hto_traverse(wb, bs) ==
            IF bs = {} THEN wb
            ELSE LET b == CHOOSE x \in bs : \A y \in bs : x <= y
                 IN hto_traverse(Elements(wb, w.h[b], 1), bs \ {b})
        w1 == Event(hto_traverse(CloseIpcPipe(w), DOMAIN w.h), "hto_delete", 0, <<>>)
    IN \* closeHandlePtr(&(ctx.hProc), INVALID_HANDLE_VALUE)
       [w1 EXCEPT !.srv = "exited", !.reads = {}, !.ipc.rd = FALSE,
                  !.open = @ \ {<<"proc", w.hProc>>}, !.hProc = 0]

(***************************************************************************)
(* The steps of showProcess.                                               *)
(***************************************************************************)
\* One round of "add files to process list"; before the first round
\* ctx.cfgBase is created.
LocalAdd ==
    /\ srv = "init"
    /\ argi < Len(argv)
    /\ LET f == argv[argi + 1]
       IN \E w0 \in (IF argi = 0
                    THEN { [wc EXCEPT !.ipc.cfgBase = wc.ret]
                           : wc \in rcIniConfigBaseCreate(World, LocalCert) }
                    ELSE { Ret(World, ipc.cfgBase) }) :
            IF w0.ret = 0 THEN Becomes(Exit(w0))
            ELSE \E wa \in processAddFile(w0, w0.ipc.cfgBase, LocalSignApp, f) :
                    IF wa.ret /\ wa.srv = "init"
                    THEN Becomes([wa EXCEPT !.argi = @ + 1])
                    ELSE IF wa.srv = "init" THEN Becomes(Exit(wa))
                    ELSE Becomes(wa)

\* "run as IPC server": the first ipcListen.
SrvListen ==
    /\ srv = "init"
    /\ argi = Len(argv)
    /\ \E wl \in ipcListen(World) :
          IF wl.ret THEN Becomes([wl EXCEPT !.srv = "loop"])
          ELSE Becomes(Exit(wl))

\* The main loop finds ovClient.hEvent signaled: "handle new client".
ClientEvent ==
    /\ srv = "loop"
    /\ ipc.waitForClient
    /\ pipe.signaled
    /\ LET ok == ipcIsValidProcess(World)
           w0 == [World EXCEPT !.pipe.verified = ok]
           rd == IF ok THEN ipcReadAsync(w0) ELSE { Ret(Event(w0, "invalid", pipe.peer, <<>>), FALSE) }
       IN \E wr \in rd :
             IF wr.ret THEN Becomes(wr)
             ELSE \E wl \in ipcNextClient(wr) :
                     IF wl.ret THEN Becomes(wl) ELSE Becomes(Exit(wl))

\* The completion routine of the read on the IPC pipe runs with n bytes, or
\* with an error after the client has closed its end.
IpcReadComplete ==
    /\ srv = "loop"
    /\ ipc.rd
    /\ LET free == IpcBufSize - Len(ipc.buf)
       IN \/ /\ pipe.data # <<>>
             /\ free > 0
             /\ \E n \in ReadSizes(Min(Len(pipe.data), free)) :
                   \E w2 \in ipcHandleReadComplete(
                                 [World EXCEPT !.pipe.data = SubSeq(@, n + 1, Len(@))],
                                 0, SubSeq(pipe.data, 1, n)) :
                      Becomes(w2)
          \/ /\ pipe.data = <<>> \/ free = 0
             /\ ~pipe.peerOpen \/ free = 0
             /\ \E w2 \in ipcHandleReadComplete(World, IF free = 0 THEN 0 ELSE 109, <<>>) :
                   Becomes(w2)

\* The completion routine of the read on the capture pipe of job k runs: with
\* a chunk the subprocess wrote, or with an error at the end of its output.
ProcReadComplete ==
    /\ srv = "loop"
    /\ \E k \in reads :
          \/ /\ v[k].child.st = "alive"
             /\ v[k].child.n < MaxChildOut
             /\ \E chunk \in ChildChunks :
                   \E w2 \in processHandleReadComplete(
                                 [World EXCEPT !.v[k].child.n = @ + 1], k, 0, chunk) :
                      Becomes(w2)
          \/ \E w2 \in processHandleReadComplete(World, k, 109, <<>>) :
                Becomes(w2)

(***************************************************************************)
(* The other invocations: the IPC setup of showProcess and                 *)
(* ipcSendReqToServer.                                                     *)
(***************************************************************************)
\* An ipcSendReqToServer that writes the sign command in front of the
\* identity.
FrameStringsSignAppFirst(f) ==
    <<f.signApp, f.cert.certId, f.cert.cardName, f.cert.cardReader>>
    \o [i \in 1..Len(f.files) |-> wToFullPath(f.files[i])]

\* The strings ipcSendReqToServer writes, one WriteFile each.
FrameStrings(f) ==
    <<f.cert.certId, f.cert.cardName, f.cert.cardReader, f.signApp>>
    \o [i \in 1..Len(f.files) |-> wToFullPath(f.files[i])]

\* One round of the IPC setup loop of invocation c: CreateNamedPipeW, then
\* CreateFileW, then Sleep.
ClTry ==
    \E c \in DOMAIN cl :
       /\ cl[c].pc \in {"new", "try"}
       /\ \A o \in DOMAIN cl : cl[o].pc # "server"
       /\ LET me == cl[c]
          IN IF pipe.st = "none"
             THEN /\ cl' = [cl EXCEPT ![c] = [me EXCEPT !.pc = "server"]]
                  /\ pipe' = pipe
             ELSE IF pipe.st \in {"fresh", "listening"}
             THEN /\ cl' = [cl EXCEPT ![c] = [me EXCEPT !.pc = "connected"]]
                  /\ pipe' = [pipe EXCEPT !.st = "connected", !.peer = c,
                                          !.peerOpen = TRUE,
                                          !.signaled = (pipe.st = "listening")]
             ELSE /\ cl' = [cl EXCEPT ![c] =
                               [me EXCEPT !.tries = @ + 1,
                                          !.pc = IF me.tries + 1 >= IpcTries
                                                 THEN "fatal" ELSE "try"]]
                  /\ pipe' = pipe
       /\ ev' = <<>>
       /\ UNCHANGED <<srv, argv, argi, v, cap, vi, proc, h, rc, hProc, hProcRead, open, reads, dec, ipc>>

\* One WriteFile of ipcSendReqToServer, or the end of the invocation after
\* the last (or a failed) WriteFile.
ClWrite ==
    \E c \in DOMAIN cl :
       /\ cl[c].pc = "connected"
       /\ LET strs == IF cl[c].frame.files = <<>> THEN <<>> ELSE FrameStrings(cl[c].frame)
              mine == pipe.st = "connected" /\ pipe.peer = c
          IN IF cl[c].k < Len(strs) /\ mine
             THEN /\ cl' = [cl EXCEPT ![c].k = @ + 1]
                  /\ pipe' = [pipe EXCEPT !.data = @ \o WcsBytes(strs[cl[c].k + 1]) \o <<0, 0>>]
             ELSE /\ cl' = [cl EXCEPT ![c].pc = IF cl[c].k < Len(strs) THEN "failed" ELSE "done"]
                  /\ pipe' = IF mine THEN [pipe EXCEPT !.peerOpen = FALSE] ELSE pipe
       /\ ev' = <<>>
       /\ UNCHANGED <<srv, argv, argi, v, cap, vi, proc, h, rc, hProc, hProcRead, open, reads, dec, ipc>>

Next ==
    \/ LocalAdd
    \/ SrvListen
    \/ ClientEvent
    \/ IpcReadComplete
    \/ ProcReadComplete
    \/ ClTry
    \/ ClWrite

Spec == Init /\ [][Next]_vars

(***************************************************************************)
(* The same program with one more invocation than MaxClients: a server     *)
(* started with one file and further invocations of the same image, each   *)
(* with one file to sign.                                                  *)
(***************************************************************************)
InitTwo ==
    /\ InitCtx
    /\ argv \in [1..1 -> LocalFiles]
    /\ cl = [c \in 1..(MaxClients + 1) |->
                [pc |-> "new", tries |-> 0, image |-> "same", frame |-> ForeignFrame,
                 k |-> 0]]

SpecTwo == InitTwo /\ [][Next]_vars

(***************************************************************************)
(* The channel byte by byte.  The server was started without files and is  *)
(* listening; the bytes of a request reach the server's end of the pipe    *)
(* one at a time, and a read completion takes what has arrived, so that    *)
(* the reads split the request in every possible way.  An invocation may   *)
(* end (be ended) at any point of its request.  Here k of an invocation is *)
(* the number of bytes of its request that have reached the pipe.          *)
(***************************************************************************)
\* Number of invocations of the byte-level model.
IpcClients == 2

RECURSIVE Concat(_)
\* The strings of a sequence, one after the other.
Concat(ss) == IF ss = <<>> THEN <<>> ELSE Head(ss) \o Concat(Tail(ss))

\* The bytes ipcSendReqToServer writes for the request f: each string with
\* its terminator.
FrameBytes(f) ==
    Concat([i \in 1..Len(FrameStrings(f)) |-> WcsBytes(FrameStrings(f)[i]) \o <<0, 0>>])

\* The requests of the byte-level model.  Every invocation has an identity
\* of its own (its number is its certId), so that the jobs of the queue tell
\* which request they came from: the first sends two files (a missing one,
\* then an existing one), the others a missing file.
IpcFrames(c) ==
    LET cert == [certId |-> <<c>>, cardName |-> <<1>>, cardReader |-> <<2>>]
    IN IF c = 1
       THEN { [cert |-> cert, signApp |-> TplStdin, files |-> <<<<103>>, <<102>>>>] }
       ELSE { [cert |-> cert, signApp |-> TplArg, files |-> <<<<103>>>>] }

\* The server after showProcess has reached its main loop without files of
\* its own: the first ipcListen has put the fresh instance into listening.
InitIpc ==
    /\ srv = "loop"
    /\ argv = <<>>
    /\ argi = 0
    /\ v = <<>>
    /\ cap = 0
    /\ vi = 0
    /\ proc = "null"
    /\ h = <<>>
    /\ rc = <<>>
    /\ hProc = 0
    /\ hProcRead = 0
    /\ open = {}
    /\ reads = {}
    /\ dec = [rem |-> 0, cp |-> 0, outputLen |-> 0, lastChar |-> 0]
    /\ ipc = [hPipe |-> "open", waitForClient |-> TRUE, buf |-> <<>>,
              state |-> IST_CERT_ID, cfg |-> EmptyCfg, signApp |-> NULL, cfgBase |-> 0,
              rd |-> FALSE]
    /\ pipe = [NoPipe EXCEPT !.st = "listening"]
    /\ ev = <<>>
    /\ \E fs \in [1..IpcClients -> UNION { IpcFrames(c) : c \in 1..IpcClients }] :
          /\ \A c \in 1..IpcClients : fs[c] \in IpcFrames(c)
          /\ cl = [c \in 1..IpcClients |->
                     [pc |-> "new", tries |-> 0, image |-> "same", frame |-> fs[c], k |-> 0]]

\* One more byte of the request of invocation c reaches the pipe.
ClSendByte ==
    \E c \in DOMAIN cl :
       /\ cl[c].pc = "connected"
       /\ pipe.st = "connected" /\ pipe.peer = c
       /\ cl[c].k < Len(FrameBytes(cl[c].frame))
       /\ cl' = [cl EXCEPT ![c].k = @ + 1]
       /\ pipe' = [pipe EXCEPT !.data = Append(@, FrameBytes(cl[c].frame)[cl[c].k + 1])]
       /\ ev' = <<>>
       /\ UNCHANGED <<srv, argv, argi, v, cap, vi, proc, h, rc, hProc, hProcRead, open, reads, dec, ipc>>

\* Invocation c ends and its handle of the pipe is closed: after its last
\* WriteFile, or earlier when a WriteFile failed or the process was ended.
ClClose ==
    \E c \in DOMAIN cl :
       /\ cl[c].pc = "connected"
       /\ cl' = [cl EXCEPT ![c].pc = IF cl[c].k < Len(FrameBytes(cl[c].frame))
                                     THEN "failed" ELSE "done"]
       /\ pipe' = IF pipe.st = "connected" /\ pipe.peer = c
                  THEN [pipe EXCEPT !.peerOpen = FALSE] ELSE pipe
       /\ ev' = <<>>
       /\ UNCHANGED <<srv, argv, argi, v, cap, vi, proc, h, rc, hProc, hProcRead, open, reads, dec, ipc>>

NextIpc ==
    \/ ClTry
    \/ ClSendByte
    \/ ClClose
    \/ ClientEvent
    \/ IpcReadComplete
    \/ ProcReadComplete

SpecIpc == InitIpc /\ [][NextIpc]_vars

(***************************************************************************)
(* The capture stream byte by byte.  One job of the server's own command   *)
(* line is running; its subprocess writes the stream out of its job's      *)
(* child record, and every read completion takes any number of the bytes   *)
(* not yet read.  Here n of the child is the number of bytes read.         *)
(***************************************************************************)
\* Length of the longest stream a subprocess writes.
MaxOutLen == 5
\* The bytes of the streams: "A", CR, LF, NUL and the two bytes of U+00E9.
OutBytes == {65, 13, 10, 0, 195, 169}

\* The streams of at most n bytes.
RECURSIVE OutStreams(_)
OutStreams(n) ==
    IF n = 0 THEN {<<>>}
    ELSE LET shorter == OutStreams(n - 1)
         IN shorter \cup { Append(t, b) : t \in {x \in shorter : Len(x) = n - 1}, b \in OutBytes }

\* The server in its main loop with the job of its one file running: the PIN
\* was typed and cached, the subprocess was created, the first read on its
\* capture pipe is pending.
InitOut ==
    /\ srv = "loop"
    /\ argv = <<<<102>>>>
    /\ argi = 1
    /\ cap = VecInitCapacity
    /\ vi = 0
    /\ proc = "live"
    /\ h = (rcIniConfigBaseHash(LocalCert, HTableSize)
              :> <<[key |-> 1, data |-> CryptProtectData(PinGood \o <<0>>)]>>)
    /\ rc = <<[cert |-> LocalCert, refCount |-> 2]>>
    /\ hProc = 1
    /\ hProcRead = 1
    /\ open = {<<"proc", 1>>, <<"pipe", 1>>}
    /\ reads = {1}
    /\ dec = [rem |-> 0, cp |-> 0, outputLen |-> 0, lastChar |-> 0]
    /\ ipc = [hPipe |-> "open", waitForClient |-> TRUE, buf |-> <<>>,
              state |-> IST_CERT_ID, cfg |-> EmptyCfg, signApp |-> NULL, cfgBase |-> 0,
              rd |-> FALSE]
    /\ pipe = [NoPipe EXCEPT !.st = "listening"]
    /\ cl = <<>>
    /\ ev = <<>>
    /\ \E stream \in OutStreams(MaxOutLen) \ {<<>>} :
          v = <<[state |-> PST_RUNNING, config |-> 1, signApp |-> LocalSignApp,
                 path |-> FileF, output |-> <<>>,
                 child |-> [st |-> "alive", cmd |-> FileF, stdin |-> wToUtf8(PinGood),
                            code |-> 0, n |-> 0, out |-> stream]]>>

\* The read on the capture pipe of job k completes with some of the bytes the
\* subprocess has written and that were not read yet.
OutRead ==
    /\ srv = "loop"
    /\ \E k \in reads :
          LET rest == SubSeq(v[k].child.out, v[k].child.n + 1, Len(v[k].child.out))
          IN \E m \in 1..Len(rest) :
                \E w2 \in processHandleReadComplete(
                              [World EXCEPT !.v[k].child.n = @ + m], k, 0,
                              SubSeq(rest, 1, m)) :
                   Becomes(w2)

\* The read completes with an error: the subprocess has written its stream
\* and has closed its end.
OutEnd ==
    /\ srv = "loop"
    /\ \E k \in reads :
          /\ v[k].child.n = Len(v[k].child.out)
          /\ \E w2 \in processHandleReadComplete(World, k, 109, <<>>) : Becomes(w2)

NextOut ==
    \/ OutRead
    \/ OutEnd

SpecOut == InitOut /\ [][NextOut]_vars

(***************************************************************************)
(* The decoder byte by byte: the stream of the running job is any sequence *)
(* of lead, continuation and invalid bytes, and every read completion      *)
(* hands one byte to processHandleReadComplete.                            *)
(***************************************************************************)
\* Length of the longest stream the decoder is fed.
MaxDecLen == 5
\* "A", LF, the continuation bytes 0x80 and 0x90 (no lead bytes either), and
\* the lead bytes 0xC1, 0xC3, 0xF0 and 0xF4.
DecBytes == {65, 10, 128, 144, 193, 195, 240, 244}

InitDec ==
    /\ srv = "loop"
    /\ argv = <<<<102>>>>
    /\ argi = 1
    /\ cap = VecInitCapacity
    /\ vi = 0
    /\ proc = "live"
    /\ h = (rcIniConfigBaseHash(LocalCert, HTableSize)
              :> <<[key |-> 1, data |-> CryptProtectData(PinGood \o <<0>>)]>>)
    /\ rc = <<[cert |-> LocalCert, refCount |-> 2]>>
    /\ hProc = 1
    /\ hProcRead = 1
    /\ open = {<<"proc", 1>>, <<"pipe", 1>>}
    /\ reads = {1}
    /\ dec = [rem |-> 0, cp |-> 0, outputLen |-> 0, lastChar |-> 0]
    /\ ipc = [hPipe |-> "open", waitForClient |-> TRUE, buf |-> <<>>,
              state |-> IST_CERT_ID, cfg |-> EmptyCfg, signApp |-> NULL, cfgBase |-> 0,
              rd |-> FALSE]
    /\ pipe = [NoPipe EXCEPT !.st = "listening"]
    /\ cl = <<>>
    /\ ev = <<>>
    /\ \E stream \in UNION { [1..n -> DecBytes] : n \in 1..MaxDecLen } :
          v = <<[state |-> PST_RUNNING, config |-> 1, signApp |-> LocalSignApp,
                 path |-> FileF, output |-> <<>>,
                 child |-> [st |-> "alive", cmd |-> FileF, stdin |-> wToUtf8(PinGood),
                            code |-> 0, n |-> 0, out |-> stream]]>>

\* The read on the capture pipe completes with the next byte of the stream.
DecByte ==
    /\ srv = "loop"
    /\ \E k \in reads :
          /\ v[k].child.n < Len(v[k].child.out)
          /\ \E w2 \in processHandleReadComplete(
                            [World EXCEPT !.v[k].child.n = @ + 1], k, 0,
                            <<v[k].child.out[v[k].child.n + 1]>>) :
                Becomes(w2)

SpecDec == InitDec /\ [][DecByte]_vars

(***************************************************************************)
(* A request with a string that does not fit ctx.buf.  The first           *)
(* invocation sends, after its header, a file whose full path has one code *)
(* unit more than half of ctx.buf holds; the second sends an existing      *)
(* file.                                                                   *)
(***************************************************************************)
InitLong ==
    /\ srv = "loop"
    /\ argv = <<>>
    /\ argi = 0
    /\ v = <<>>
    /\ cap = 0
    /\ vi = 0
    /\ proc = "null"
    /\ h = <<>>
    /\ rc = <<>>
    /\ hProc = 0
    /\ hProcRead = 0
    /\ open = {}
    /\ reads = {}
    /\ dec = [rem |-> 0, cp |-> 0, outputLen |-> 0, lastChar |-> 0]
    /\ ipc = [hPipe |-> "open", waitForClient |-> TRUE, buf |-> <<>>,
              state |-> IST_CERT_ID, cfg |-> EmptyCfg, signApp |-> NULL, cfgBase |-> 0,
              rd |-> FALSE]
    /\ pipe = [NoPipe EXCEPT !.st = "listening"]
    /\ ev = <<>>
    /\ cl = [c \in 1..IpcClients |->
               [pc |-> "new", tries |-> 0, image |-> "same", k |-> 0,
                frame |-> [cert |-> [certId |-> <<c>>, cardName |-> <<1>>,
                                     cardReader |-> <<2>>],
                           signApp |-> IF c = 1 THEN TplStdin ELSE TplArg,
                           files |-> IF c = 1
                                     THEN <<[i \in 1..(IpcBufSize \div 2) |-> 103]>>
                                     ELSE <<FileF>>]]]

SpecLong == InitLong /\ [][NextIpc]_vars

(***************************************************************************)
(* rcIniConfigBaseCmp and the lookup of ctx.h on identities with absent    *)
(* fields: two objects, the first one being the key of an element of ctx.h.*)
(***************************************************************************)
\* A field of tIniConfigBase: absent (NULL) or a string.
CmpStrings == {NULL, <<1>>, <<2>>}

InitCmp ==
    /\ srv = "loop"
    /\ argv = <<>>
    /\ argi = 0
    /\ v = <<>>
    /\ cap = 0
    /\ vi = 0
    /\ proc = "null"
    /\ hProc = 0
    /\ hProcRead = 0
    /\ open = {}
    /\ reads = {}
    /\ dec = [rem |-> 0, cp |-> 0, outputLen |-> 0, lastChar |-> 0]
    /\ ipc = [hPipe |-> "open", waitForClient |-> TRUE, buf |-> <<>>,
              state |-> IST_CERT_ID, cfg |-> EmptyCfg, signApp |-> NULL, cfgBase |-> 0,
              rd |-> FALSE]
    /\ pipe = [NoPipe EXCEPT !.st = "listening"]
    /\ cl = <<>>
    /\ ev = <<>>
    /\ \E l, r \in [certId : CmpStrings, cardName : CmpStrings, cardReader : CmpStrings] :
          /\ rc = <<[cert |-> l, refCount |-> 2], [cert |-> r, refCount |-> 1]>>
          /\ h = (rcIniConfigBaseHash(l, HTableSize) :> <<[key |-> 1, data |-> NULL]>>)

\* rcIniConfigBaseCmp(lhs, rhs) on the two objects.
CmpApply ==
    /\ ev = <<>>
    /\ Becomes(Event(World, "cmp", rcIniConfigBaseCmp(World, 1, 2), <<>>))

\* hto_getKey(ctx.h, rhs): the position of the element found, 0 for none.
HtoLookup ==
    /\ ev = <<>>
    /\ Becomes(Event(World, "lookup", hto_getKey(World, 2)[2], <<>>))

NextCmp ==
    \/ CmpApply
    \/ HtoLookup

SpecCmp == InitCmp /\ [][NextCmp]_vars

(***************************************************************************)
(* The start of one job for every sign command: the queue holds the job,   *)
(* idle, and ctx.h holds the PIN of its identity.                          *)
(***************************************************************************)
\* Length of the sign commands.
MaxTplLen == 3

InitCmdLine ==
    /\ srv = "loop"
    /\ argv = <<>>
    /\ argi = 0
    /\ cap = VecInitCapacity
    /\ vi = 0
    /\ proc = "null"
    /\ rc = <<[cert |-> LocalCert, refCount |-> 3]>>
    /\ hProc = 0
    /\ hProcRead = 0
    /\ open = {}
    /\ reads = {}
    /\ dec = [rem |-> 0, cp |-> 0, outputLen |-> 0, lastChar |-> 0]
    /\ ipc = [hPipe |-> "open", waitForClient |-> TRUE, buf |-> <<>>,
              state |-> IST_CERT_ID, cfg |-> EmptyCfg, signApp |-> NULL, cfgBase |-> 1,
              rd |-> FALSE]
    /\ pipe = [NoPipe EXCEPT !.st = "listening"]
    /\ cl = <<>>
    /\ ev = <<>>
    \* sign commands over "%", "1", "2" and "x"; PINs "1", "12" and U+00E9
    /\ \E tpl \in UNION { [1..n -> {37, 49, 50, 120}] : n \in 1..MaxTplLen },
          pin \in {<<49>>, <<49, 50>>, <<233>>} :
          /\ v = <<[state |-> PST_IDLE, config |-> 1, signApp |-> tpl, path |-> FileF,
                    output |-> <<>>,
                    child |-> [st |-> "none", cmd |-> NULL, stdin |-> NULL, code |-> 0,
                               n |-> 0]]>>
          /\ h = (rcIniConfigBaseHash(LocalCert, HTableSize)
                    :> <<[key |-> 1, data |-> CryptProtectData(pin \o <<0>>)]>>)

\* processNext takes up the job: processStart builds its command line and
\* creates the subprocess.
CmdStart ==
    /\ proc = "null"
    /\ \E w2 \in processNext(World) : Becomes(w2)

SpecCmdLine == InitCmdLine /\ [][CmdStart]_vars

(***************************************************************************)
(* The IPC setup of showProcess: invocations that are started together and *)
(* run the create-then-connect loop.  Here cl holds, per invocation, pc     *)
(* ("setup" | "server" | "client" | "fatal"), tries (i of the loop), hPipe  *)
(* (0: INVALID_HANDLE_VALUE, -1: the instance it created, o > 0: its        *)
(* connection to the instance of invocation o), hEvent (ctx.ovClient.hEvent *)
(* is not NULL), isServer, and inst, the instance of the pipe it has        *)
(* created: "none", "free" (no client) or "busy" (a client is connected).   *)
(***************************************************************************)
\* Number of invocations that run the setup.
ArbProcs == 2

InitArb ==
    /\ InitCtx
    /\ argv = <<>>
    /\ cl = [c \in 1..ArbProcs |->
                [pc |-> "setup", tries |-> 0, hPipe |-> 0, hEvent |-> FALSE,
                 isServer |-> TRUE, inst |-> "none"]]

\* One round of the loop of invocation c, and what follows the loop when the
\* round was the last one.  CreateNamedPipeW with FILE_FLAG_FIRST_PIPE_INSTANCE
\* succeeds only while no instance of the pipe exists, and can fail then too;
\* CreateFileW connects to an instance without client; CreateEvent succeeds
\* or fails.
ArbTry ==
    \E c \in DOMAIN cl :
       /\ cl[c].pc = "setup"
       /\ LET me == cl[c]
              free == {o \in DOMAIN cl : cl[o].inst = "free"}
              \* after "continue": the next round, or the end of the loop
              Continue(m) ==
                  LET m1 == [m EXCEPT !.tries = @ + 1]
                  IN IF m1.tries < IpcTries THEN m1
                     ELSE IF m1.hPipe = 0 THEN [m1 EXCEPT !.pc = "fatal"]
                     ELSE IF ~m1.isServer THEN [m1 EXCEPT !.pc = "client"]
                     ELSE [m1 EXCEPT !.pc = "server"]
          IN \/ \* ctx.hPipe = CreateNamedPipeW(...) succeeded
                /\ \A o \in DOMAIN cl : cl[o].inst = "none"
                /\ \E event \in BOOLEAN :
                      LET m == [me EXCEPT !.hPipe = -1, !.inst = "free",
                                          !.hEvent = @ \/ event]
                      IN cl' = [cl EXCEPT ![c] = IF m.hEvent
                                                 THEN [m EXCEPT !.pc = "server"]
                                                 ELSE Continue(m)]
             \/ \* it failed and CreateFileW connected to the instance of o
                \E o \in free :
                   cl' = [[cl EXCEPT ![o].inst = "busy"]
                             EXCEPT ![c].hPipe = o, ![c].isServer = FALSE,
                                    ![c].pc = "client"]
             \/ \* both failed: Sleep(100)
                /\ free = {}
                /\ cl' = [cl EXCEPT ![c] = Continue([me EXCEPT !.hPipe = 0])]
       /\ ev' = <<>>
       /\ UNCHANGED <<srv, argv, argi, v, cap, vi, proc, h, rc, hProc, hProcRead, open, reads,
                      dec, ipc, pipe>>

SpecArb == InitArb /\ [][ArbTry]_vars

(***************************************************************************)
(* Properties.                                                             *)
(***************************************************************************)
Jobs == DOMAIN v
Running == {j \in Jobs : v[j].state = PST_RUNNING}
\* The buffer of the queue has never been replaced by a larger one.
NeverRelocated == cap <= VecInitCapacity

\* C1: at most one job of the queue is in state running at any time, for
\* every interleaving of enqueues and read completions.
C1_AtMostOneRunning == Cardinality(Running) <= 1

\* C1, while the queue still lives in its first buffer: at most one job is
\* running.
C1_AtMostOneRunningFirstBuffer == NeverRelocated => Cardinality(Running) <= 1

Idle == {j \in Jobs : v[j].state = PST_IDLE}

\* C2: the queue drains unattended: whenever a job has reached a terminal
\* state the next idle job is started, so a job waits idle only while another
\* one is running (here: in a queue that still lives in its first buffer).
C2_IdleOnlyWhileRunning ==
    (srv \in {"init", "loop"} /\ NeverRelocated /\ Running = {}) => Idle = {}

\* States a job is in once processStart or processFinish is through with it.
Terminal == tProcState \ {PST_IDLE, PST_RUNNING}
\* States only a job that was selected and started can be in.
Started == tProcState \ {PST_IDLE, PST_FILE_NOT_FOUND}

\* C3: jobs are started in the order they were enqueued: while a job is idle,
\* no job enqueued after it is running or has been through a start.
C3_Fifo ==
    \A a, b \in Jobs :
        (a < b /\ v[a].state = PST_IDLE) => v[b].state \notin Started

\* C3 happens: a later job runs after an earlier one has been started and has
\* ended.
C3_Witness ==
    \E a, b \in Jobs :
        /\ a < b
        /\ v[a].state \in Started \ {PST_RUNNING}
        /\ v[b].state = PST_RUNNING

\* C4: the terminal states are absorbing: a job that is ok, fail,
\* file_not_found, broken_pipe, app_not_found, pin_missing or pin_wrong keeps
\* that state in every step.
C4_TerminalAbsorbing ==
    [][\A j \in Jobs : v[j].state \in Terminal => v'[j].state = v[j].state]_vars

\* C4 happens: a job has ended and a later job has been started and has ended.
C4_Witness ==
    \E a, b \in Jobs :
        /\ a < b
        /\ v[a].state \in {PST_OK, PST_FAIL}
        /\ v[a].child.st = "exited"
        /\ v[b].state \in Terminal \ {PST_FILE_NOT_FOUND}

\* C4, while the queue still lives in its first buffer: a job in a terminal
\* state keeps it.
C4_TerminalAbsorbingFirstBuffer ==
    [][NeverRelocated =>
          \A j \in Jobs : v[j].state \in Terminal => v'[j].state = v[j].state]_vars

IdentityOf(q, o, j) == o[q[j].config].cert

\* The plaintext PINs the cache tab holds for identity id.
CachedPins(tab, o, id) ==
    { LET raw == CryptUnprotectData(tab[b][k].data)
      IN SubSeq(raw, 1, Len(raw) - 1)
      : <<b, k>> \in { <<b, k>> \in UNION { {b} \X DOMAIN tab[b] : b \in DOMAIN tab } :
                          /\ o[tab[b][k].key].cert = id
                          /\ tab[b][k].data # NULL } }

\* The PINs that were typed for identity id and accepted by the card earlier
\* in the handler whose events are e, before event n.
PinsJustValidated(e, q, o, id, n) ==
    { e[m].b : m \in { m \in 1..(n - 1) : /\ e[m].t = "prompt"
                                          /\ IdentityOf(q, o, e[m].a) = id
                                          /\ e[m].b # NULL
                                          /\ iniConfigValidatePin(e[m].b) } }

Rejected(e, n) ==
    e[n].t = "prompt" /\ e[n].b # NULL /\ ~iniConfigValidatePin(e[n].b)

\* C7: a PIN the card rejects makes the job pin_wrong and stores nothing in
\* the cache for its identity, and a job that is started while the cache holds
\* nothing for its identity gets its PIN from a prompt answered in that very
\* step for that identity, so the next job of the identity prompts again.
C7_RejectedPinNotCached ==
    [][/\ \A n \in DOMAIN ev' :
             Rejected(ev', n) =>
                LET id == IdentityOf(v', rc', ev'[n].a)
                IN /\ v'[ev'[n].a].state = PST_PIN_WRONG
                   /\ (\A m \in DOMAIN ev' :
                          (m > n /\ ev'[m].t = "prompt") =>
                             IdentityOf(v', rc', ev'[m].a) # id)
                      => CachedPins(h', rc', id) = {}
       /\ \A m \in DOMAIN ev' :
             (ev'[m].t = "spawn"
                 /\ CachedPins(h, rc, IdentityOf(v', rc', ev'[m].a)) = {})
             => \E k \in 1..(m - 1) :
                   /\ ev'[k].t = "prompt"
                   /\ IdentityOf(v', rc', ev'[k].a) = IdentityOf(v', rc', ev'[m].a)
                   /\ ev'[k].b = ev'[m].b]_vars

\* C7 happens: a job is pin_wrong after a rejected PIN, and a later job of the
\* same identity has just been started from a prompt of its own.
C7_Witness ==
    \E a \in Jobs, n, m \in DOMAIN ev :
        /\ v[a].state = PST_PIN_WRONG
        /\ a < ev[n].a
        /\ IdentityOf(v, rc, a) = IdentityOf(v, rc, ev[n].a)
        /\ ev[n].t = "prompt"
        /\ ev[m].t = "spawn"
        /\ ev[m].a = ev[n].a

\* C8: the server has a read pending on the channel only for a connection
\* whose peer ipcIsValidProcess has verified, whether the connection was
\* accepted by the completion of a pending listen or was found connected when
\* the listening was started.
C8_ReadOnlyFromVerifiedPeer == ipc.rd => pipe.verified

\* The client of the connection has closed its end and left nothing to read.
ClientGone == pipe.st = "connected" /\ ~pipe.peerOpen /\ pipe.data = <<>>

\* The server is at a step that deals with the channel: the first ipcListen,
\* the handling of a new client, or a read completion.
AtChannelStep ==
    \/ srv = "init" /\ argi = Len(argv)
    \/ srv = "loop" /\ (ipc.rd \/ (ipc.waitForClient /\ pipe.signaled))

\* C9: when the server deals with a channel whose client has disconnected, it
\* disconnects its end and is listening again at the end of that step, still
\* running.
C9_ListensAgainAfterDisconnect ==
    [][(/\ ClientGone
        /\ AtChannelStep
        /\ cl' = cl
        /\ <<ipc, pipe, srv>>' # <<ipc, pipe, srv>>)
       => (srv' = "loop" /\ pipe'.st = "listening" /\ ipc'.waitForClient)]_vars

\* C10: while the server is running, no other invocation with files to sign
\* becomes a server itself or gives up with the "open channel" error; each
\* becomes a client of the running server.
C10_EveryInvocationBecomesClient ==
    srv \in {"init", "loop"} =>
        \A c \in DOMAIN cl :
            cl[c].frame.files # <<>> => cl[c].pc \notin {"server", "fatal"}

\* The part of C10 about a second server: while the server is running no other
\* invocation owns an instance of the channel.
C10_NoSecondServer ==
    srv \in {"init", "loop"} => \A c \in DOMAIN cl : cl[c].pc # "server"

(***************************************************************************)
(* The protocol, under SpecIpc.                                            *)
(***************************************************************************)
RECURSIVE Tokens(_)
\* The complete strings (terminator found) of a byte stream, in order.
Tokens(bytes) ==
    LET pos == FindNul(bytes, 1, Len(bytes) \div 2)
    IN IF pos = 0 THEN <<>>
       ELSE <<[i \in 1..(pos - 1) |-> WcharAt(bytes, i)]>>
            \o Tokens(SubSeq(bytes, 2 * pos + 1, Len(bytes)))

\* The file strings among the complete strings of a stream: the fifth and on.
FilesOf(bytes) ==
    LET t == Tokens(bytes) IN IF Len(t) <= 4 THEN <<>> ELSE SubSeq(t, 5, Len(t))

\* The jobs of the queue q bound to the identity cert, in queue order.
JobsOf(q, o, cert) ==
    SelectSeq([j \in 1..Len(q) |-> q[j]], LAMBDA job : o[job.config].cert = cert)

\* The bytes of the request of invocation c that have reached the pipe.
Delivered(c, k) == SubSeq(FrameBytes(cl[c].frame), 1, k)

\* Invocation c holds the connection of the pipe.
Current(c) == pipe.st = "connected" /\ pipe.peer = c

C12_JobsIndependentOfSplit ==
    \A c \in DOMAIN cl :
        (Current(c) /\ pipe.verified) =>
            LET taken == Delivered(c, cl[c].k - Len(pipe.data))
                jobs == JobsOf(v, rc, cl[c].frame.cert)
            IN [i \in 1..Len(jobs) |-> jobs[i].path] = FilesOf(taken)

\* C12 happens: a read has ended inside a code unit of the second file string
\* (three bytes of it are buffered) after the first file became a job.
C12_Witness ==
    /\ Current(1)
    /\ pipe.verified
    /\ Len(ipc.buf) = 3
    /\ Len(JobsOf(v, rc, cl[1].frame.cert)) = 1

\* C13: when the server has taken every byte of a request whose sender has
\* written it completely, the queue holds for that request exactly one job
\* per file, in the order of the files, each with the full path of its file,
\* the sender's identity and the sender's sign command; and every job of the
\* queue is one of these.
C13_FrameYieldsItsJobs ==
    /\ \A c \in DOMAIN cl :
          (Current(c) /\ pipe.verified /\ cl[c].pc = "done" /\ pipe.data = <<>>) =>
              LET f == cl[c].frame
                  jobs == JobsOf(v, rc, f.cert)
              IN /\ Len(jobs) = Len(f.files)
                 /\ \A i \in 1..Len(jobs) :
                       /\ jobs[i].path = wToFullPath(f.files[i])
                       /\ jobs[i].signApp = f.signApp
                       /\ rc[jobs[i].config].cert = f.cert
    /\ \A j \in Jobs : \E c \in DOMAIN cl : IdentityOf(v, rc, j) = cl[c].frame.cert

\* C13 happens: the first invocation has written its two files and ended, the
\* server has taken all of it and has not yet seen the end of the connection.
C13_Witness ==
    /\ Current(1)
    /\ pipe.verified
    /\ cl[1].pc = "done"
    /\ pipe.data = <<>>
    /\ Len(JobsOf(v, rc, cl[1].frame.cert)) = 2

(***************************************************************************)
(* The end of a job.                                                       *)
(***************************************************************************)
\* The last n code units of the log of job k in the queue q.
LogTail(q, k, n) ==
    IF Len(q[k].output) < n THEN <<>>
    ELSE SubSeq(q[k].output, Len(q[k].output) - n + 1, Len(q[k].output))

\* The step is the one in which the read on the capture pipe of job k ends:
\* the read was pending, it is not pending afterwards, the server runs on.
StreamEnds(k) == k \in reads /\ k \notin reads' /\ srv' = "loop"

\* What C14 says of the step that ends the capture stream of job k.
Classified(k) ==
    /\ IF hProc = 0
       THEN v'[k].state = PST_FAIL
       ELSE /\ v'[k].child.st = "exited"
            /\ v'[k].state = IF v'[k].child.code = 0 THEN PST_OK ELSE PST_FAIL
            /\ v'[k].child.code # 0 =>
                  LogTail(v', k, 4) = <<13, 10, 69, 48 + v'[k].child.code>>
    /\ LET i == NextIdle([v |-> v], vi)
       IN i >= 0 => v'[i + 1].state # PST_IDLE

\* C14: in the step that ends the capture stream of a running job, the job
\* becomes ok when its subprocess exited with code zero and fail otherwise,
\* with the code appended to its log (fail as well when there is no process
\* handle to wait on), and the first idle job of the queue, if there is one,
\* is taken up by processNext in that same step.
C14_FinishClassifies ==
    [][\A k \in reads : StreamEnds(k) => Classified(k)]_vars

\* The same while the queue is in its first buffer.
C14_FinishClassifiesFirstBuffer ==
    [][\A k \in reads : (StreamEnds(k) /\ NeverRelocated) => Classified(k)]_vars

\* C14 happens: a job has failed with a non-zero exit code, the code is at
\* the end of its log, and the job behind it has been started.
C14_Witness ==
    \E k \in Jobs :
        /\ v[k].state = PST_FAIL
        /\ v[k].child.st = "exited"
        /\ v[k].child.code # 0
        /\ LogTail(v, k, 4) = <<13, 10, 69, 48 + v[k].child.code>>
        /\ k + 1 \in Jobs
        /\ v[k + 1].state = PST_RUNNING
        /\ reads = {k + 1}

(***************************************************************************)
(* The log of a job, under SpecOut.                                        *)
(***************************************************************************)
\* The decoder context processStart leaves: nothing decoded yet.
FreshDec == [rem |-> 0, cp |-> 0, outputLen |-> 0, lastChar |-> 0]

\* The log one read completion with all of bytes leaves in an empty log.
OneShot(bytes) ==
    LET r == DecodeOutput(FreshDec, <<>>, bytes)
    IN r.out \o (IF r.dec.outputLen >= ProcessMaxOutput THEN TruncNote ELSE <<>>)

\* The text processFinish appends for the exit code c.
ExitNote(c) == IF c = 0 THEN <<>> ELSE <<13, 10, 69, 48 + c>>

\* The bytes of the stream of job k that the server has read.
Taken(k) == SubSeq(v[k].child.out, 1, v[k].child.n)

\* C15: after any read completions the log of a job is the log a single read
\* completion with all the bytes read so far would have left (followed, once
\* the job has failed, by the note with its exit code): the text does not
\* depend on where the reads split the stream.
C15_LogIndependentOfSplit ==
    \A k \in Jobs :
        /\ v[k].state = PST_RUNNING => v[k].output = OneShot(Taken(k))
        /\ (v[k].state \in {PST_OK, PST_FAIL} /\ v[k].child.st = "exited") =>
              v[k].output = OneShot(Taken(k)) \o ExitNote(v[k].child.code)

\* C15 happens: a read has ended inside a two-byte sequence (its first byte
\* is taken, its second is still to come) or between a carriage return and a
\* line-feed, and the next read is pending.
C15_Witness ==
    /\ reads = {1}
    /\ v[1].child.n < Len(v[1].child.out)
    /\ \/ dec.rem = 1 /\ v[1].child.out[v[1].child.n + 1] = 169
       \/ dec.lastChar = 13 /\ v[1].child.out[v[1].child.n + 1] = 10

RECURSIVE CodePoints(_, _)
\* The code points utf8_parse gives for bytes, from the context d on.
CodePoints(d, bytes) ==
    IF bytes = <<>> THEN <<>>
    ELSE LET r == utf8_parse(d, Head(bytes))
             rest == CodePoints([d EXCEPT !.rem = r.rem, !.cp = r.cp], Tail(bytes))
         IN IF r.ret = UTF8_MORE THEN rest ELSE <<r.ret>> \o rest

RECURSIVE Canonical(_, _)
\* The log of the code points cps behind the text log: a carriage return goes
\* in before a line-feed exactly when the character emitted last is not one;
\* NUL is not emitted.
Canonical(log, cps) ==
    IF cps = <<>> THEN log
    ELSE LET cp == Head(cps)
             cr == IF cp = 10 /\ (log = <<>> \/ log[Len(log)] # 13) THEN <<13>> ELSE <<>>
         IN Canonical(log \o cr \o (IF cp = 0 THEN <<>> ELSE <<cp>>), Tail(cps))

\* C16: while a job runs and its log is not cut, the log is the text of the
\* decoded code points with a carriage return inserted before a line-feed
\* exactly when the character emitted immediately before is not a carriage
\* return.
C16_LineEndings ==
    \A k \in Jobs :
        (v[k].state = PST_RUNNING /\ Len(CodePoints(FreshDec, Taken(k))) < ProcessMaxOutput)
        => v[k].output = Canonical(<<>>, CodePoints(FreshDec, Taken(k)))

\* The part of C16 that holds: every line-feed of the log of a job stands
\* directly behind a carriage return.
C16_LineFeedAfterCarriageReturn ==
    \A k \in Jobs :
        \A i \in DOMAIN v[k].output :
            v[k].output[i] = 10 => (i > 1 /\ v[k].output[i - 1] = 13)


(***************************************************************************)
(* Plaintext copies of the PIN.                                            *)
(***************************************************************************)
\* str holds the characters of sub next to each other.
Contains(str, sub) ==
    \E i \in 0..(Len(str) - Len(sub)) : SubSeq(str, i + 1, i + Len(sub)) = sub

\* The PINs job j had in plain text in the step: typed into the prompt or
\* decrypted for the subprocess.
PlainPins(e, j) ==
    { e[n].b : n \in {m \in DOMAIN e : /\ e[m].t \in {"prompt", "spawn"}
                                      /\ e[m].a = j
                                      /\ e[m].b # NULL} }

\* C17: every transient plaintext copy of a PIN is zeroed before its memory
\* is released or goes out of scope, on every exit path of iniConfigGetPin
\* and processStart: no step releases memory in which the PIN of its job can
\* still be read.
C17_PinCopiesZeroed ==
    [][\A n \in DOMAIN ev' :
          ev'[n].t = "residue" =>
             \A p \in PlainPins(ev', ev'[n].a) : ~Contains(ev'[n].b, p)]_vars

\* C17 for the copies other than the prompt's buffer and the build buffer: a
\* subprocess that takes the PIN from its standard input is started with no
\* readable copy left behind.
C17_StdinStartLeavesNoCopy ==
    [][\A n, m \in DOMAIN ev' :
          (/\ ev'[n].t = "residue"
           /\ ev'[m].t = "spawn"
           /\ ev'[m].a = ev'[n].a
           /\ v'[ev'[m].a].child.stdin # NULL)
          => ~Contains(ev'[n].b, ev'[m].b)]_vars


(***************************************************************************)
(* The channel of a running server.                                        *)
(***************************************************************************)
\* C18: while the server is running its channel stays open: an error while
\* handling one connection drops only that connection, and in every state of
\* a running server the channel is listening for a client or connected to
\* one.
C18_ChannelStaysOpen ==
    srv = "loop" => /\ ipc.hPipe = "open"
                    /\ pipe.st \in {"listening", "connected"}

\* C18 for the connections that end without an allocation failure and
\* without a failed enqueue: a step that leaves the server running and has
\* disconnected a client leaves the channel listening or connected.
C18_ProtocolErrorKeepsChannel ==
    [][(/\ srv = "loop" /\ srv' = "loop"
        /\ ipc.hPipe = "open"
        /\ \E n \in DOMAIN ev' : ev'[n].t = "disconnect")
       => (/\ ipc'.hPipe = "open"
           /\ pipe'.st \in {"listening", "connected"})]_vars


C19_EqualIffAllMatchComplete ==
    \A n \in DOMAIN ev :
        (/\ ev[n].t = "cmp"
         /\ \A i \in {1, 2} : /\ rc[i].cert.certId # NULL
                               /\ rc[i].cert.cardName # NULL
                               /\ rc[i].cert.cardReader # NULL)
        => (ev[n].a = 0 <=> rc[1].cert = rc[2].cert)


(***************************************************************************)
(* What the PIN cache holds.                                               *)
(***************************************************************************)
\* The step whose events are e had a prompt for identity id answered with a
\* PIN the card accepted.
ValidatedInStep(e, q, o, id) ==
    \E m \in DOMAIN e : /\ e[m].t = "prompt"
                        /\ IdentityOf(q, o, e[m].a) = id
                        /\ e[m].b # NULL
                        /\ iniConfigValidatePin(e[m].b)

\* C20: every cache entry holding a non-empty blob was written only after
\* the PIN it encrypts passed provider validation: a blob the step has put
\* into the cache is the encryption of a PIN that was typed in this step for
\* the identity of the entry and accepted by the card.  The entry of a job
\* that found the cache empty and ends pin_missing or pin_wrong (cancelled
\* prompt, failed card check, failed validation) stays empty.
C20_CacheHoldsValidatedPins ==
    [][/\ \A b \in DOMAIN h' : \A k \in DOMAIN h'[b] :
             LET old == IF b \in DOMAIN h /\ k \in DOMAIN h[b] THEN h[b][k].data ELSE NULL
                 id == rc'[h'[b][k].key].cert
             IN (h'[b][k].data # NULL /\ h'[b][k].data # old) =>
                   /\ old = NULL
                   /\ \E m \in DOMAIN ev' :
                         /\ ev'[m].t = "prompt"
                         /\ IdentityOf(v', rc', ev'[m].a) = id
                         /\ ev'[m].b # NULL
                         /\ iniConfigValidatePin(ev'[m].b)
                         /\ h'[b][k].data = CryptProtectData(ev'[m].b \o <<0>>)
       /\ \A j \in DOMAIN v' :
             LET id == IdentityOf(v', rc', j)
             IN (/\ v'[j].state \in {PST_PIN_MISSING, PST_PIN_WRONG}
                 /\ j \in DOMAIN v => v[j].state = PST_IDLE
                 /\ CachedPins(h, rc, id) = {}
                 /\ ~ValidatedInStep(ev', v', rc', id))
                => CachedPins(h', rc', id) = {}]_vars

\* C20 happens: a PIN was typed and accepted and its blob is in the cache,
\* next to the still empty entry of an identity whose job ended pin_missing
\* or pin_wrong.
C20_Witness ==
    /\ \E n \in DOMAIN ev :
          /\ ev[n].t = "prompt"
          /\ ev[n].b # NULL
          /\ iniConfigValidatePin(ev[n].b)
          /\ CachedPins(h, rc, IdentityOf(v, rc, ev[n].a)) = {ev[n].b}
    /\ \E j \in Jobs :
          /\ v[j].state \in {PST_PIN_MISSING, PST_PIN_WRONG}
          /\ CachedPins(h, rc, IdentityOf(v, rc, j)) = {}
          /\ \E b \in DOMAIN h : \E k \in DOMAIN h[b] :
                rc[h[b][k].key].cert = IdentityOf(v, rc, j) /\ h[b][k].data = NULL


(***************************************************************************)
(* The states of a job.                                                    *)
(***************************************************************************)
\* Job j was set to running in the step whose events are e.
RanInStep(e, j) == \E n \in DOMAIN e : e[n].t = "running" /\ e[n].a = j

\* The state job j of queue q has; "new" for a job that is not in q yet.
StateIn(q, j) == IF j \in DOMAIN q THEN q[j].state ELSE "new"

C21_StateMachineFirstBuffer ==
    [][NeverRelocated =>
          \A j \in DOMAIN v' :
             LET old == StateIn(v, j)
                 new == v'[j].state
                 ran == RanInStep(ev', j)
             IN \/ old = new /\ ~ran
                \/ old = "new" /\ new = PST_FILE_NOT_FOUND /\ ~ran
                \/ /\ old \in {"new", PST_IDLE}
                   /\ \/ new = PST_IDLE /\ ~ran
                      \/ new \in {PST_RUNNING, PST_OK} /\ ran
                      \/ new = PST_FAIL
                      \/ /\ new \in {PST_BROKEN_PIPE, PST_APP_NOT_FOUND,
                                      PST_PIN_MISSING, PST_PIN_WRONG}
                         /\ ~ran
                \/ old = PST_RUNNING /\ new \in {PST_OK, PST_FAIL} /\ ~ran]_vars

C22_NoCardOrCancelled ==
    [][\A n \in DOMAIN ev' :
          LET j == ev'[n].a
              id == IdentityOf(v', rc', j)
          IN /\ ev'[n].t = "nocard" =>
                   /\ CachedPins(h, rc, id) = {}
                   /\ \A m \in DOMAIN ev' :
                         ev'[m].a = j => ev'[m].t \notin {"prompt", "residue"}
             /\ (ev'[n].t = "nocard" \/ (ev'[n].t = "prompt" /\ ev'[n].b = NULL)) =>
                   /\ v'[j].state = PST_PIN_MISSING
                   /\ v'[j].child.st = "none"
                   /\ \A m \in DOMAIN ev' :
                         ev'[m].a = j => ev'[m].t \notin {"spawn", "running"}
                   /\ ~ValidatedInStep(ev', v', rc', id) =>
                         CachedPins(h', rc', id) = {}]_vars

\* C22 happens: the step found no usable card for one job and had the prompt
\* cancelled for a job behind it; both are pin_missing.
C22_Witness ==
    \E n, m \in DOMAIN ev :
        /\ ev[n].t = "nocard"
        /\ ev[m].t = "prompt" /\ ev[m].b = NULL
        /\ ev[n].a < ev[m].a
        /\ v[ev[n].a].state = PST_PIN_MISSING
        /\ v[ev[m].a].state = PST_PIN_MISSING


C24_LogCapped ==
    [][\A k \in reads :
          LET Notes(log) == Cardinality({i \in DOMAIN log : log[i] = TruncNote[3]})
              got == v'[k].child.n > v[k].child.n
              ended == v'[k].state \in {PST_OK, PST_FAIL}
              tail == IF ended THEN ExitNote(v'[k].child.code) ELSE <<>>
          IN /\ dec'.outputLen <= ProcessMaxOutput
             /\ Notes(v'[k].output) = (IF dec'.outputLen >= ProcessMaxOutput THEN 1 ELSE 0)
             /\ dec.outputLen >= ProcessMaxOutput => v'[k].output = v[k].output \o tail
             /\ (dec.outputLen < ProcessMaxOutput /\ dec'.outputLen >= ProcessMaxOutput) =>
                   LogTail(v', k, Len(TruncNote) + Len(tail)) = TruncNote \o tail
             /\ got => (k \in reads' \/ ended)]_vars

\* C24 happens: the log was cut, its notice is there, the subprocess has
\* written more than was taken into the log and the next read is pending.
C24_Witness ==
    \E k \in reads :
        /\ dec.outputLen = ProcessMaxOutput
        /\ v[k].child.n > ProcessMaxOutput
        /\ LogTail(v, k, Len(TruncNote)) = TruncNote
        /\ v[k].state = PST_RUNNING


(***************************************************************************)
(* The setup of the channel, under SpecArb.                                *)
(***************************************************************************)
\* C25: the setup ends after at most three create-then-connect rounds with
\* one outcome: server (the instance created and the listen event there),
\* client (connected to the instance of another process), or the fatal error
\* when every round failed; no invocation becomes the client of its own
\* instance or a server without listen event.
C25_OneOutcome ==
    \A c \in DOMAIN cl :
        /\ cl[c].tries <= IpcTries
        /\ cl[c].pc = "server" => (cl[c].hPipe = -1 /\ cl[c].hEvent)
        /\ cl[c].pc = "client" => (cl[c].hPipe > 0 /\ cl[c].hPipe # c)
        /\ cl[c].pc = "fatal" => (cl[c].hPipe = 0 /\ cl[c].tries = IpcTries)

\* C25 without its last part: at most three rounds, a server holds an
\* instance, a client a connection, and the fatal error follows three failed
\* rounds.
C25_OneOutcomeOfThreeRounds ==
    \A c \in DOMAIN cl :
        /\ cl[c].tries <= IpcTries
        /\ cl[c].pc = "server" => (cl[c].hPipe = -1 /\ cl[c].isServer)
        /\ cl[c].pc = "client" => (cl[c].hPipe > 0 /\ ~cl[c].isServer)
        /\ cl[c].pc = "fatal" => (cl[c].hPipe = 0 /\ cl[c].tries = IpcTries)


C27_DropKeepsJobs ==
    [][(\/ \E n \in DOMAIN ev' : ev'[n].t = "disconnect"
        \/ ipc.hPipe = "open" /\ ipc'.hPipe = "closed" /\ srv' = "loop")
       => /\ \A j \in DOMAIN v :
                /\ j \in DOMAIN v'
                /\ IdentityOf(v', rc', j) = IdentityOf(v, rc, j)
                /\ IdentityOf(v', rc', j).certId # NULL
                /\ v'[j].signApp = v[j].signApp
                /\ v'[j].path = v[j].path
                /\ (Len(v') = Len(v) \/ v[j].state # PST_IDLE)
                      => v'[j].state = v[j].state
          /\ ipc'.hPipe = "open" => ipc'.buf = <<>>]_vars

\* C27 happens: an invocation has ended inside a file string that follows a
\* complete one, the server has dropped the connection with nothing left in
\* its buffer, and the job of the complete file string is in the queue.
C27_Witness ==
    /\ \E n \in DOMAIN ev : ev[n].t = "disconnect"
    /\ ipc.buf = <<>>
    /\ \E c \in DOMAIN cl :
          /\ cl[c].pc = "failed"
          /\ cl[c].k > 0
          /\ Tokens(Delivered(c, cl[c].k)) = Tokens(Delivered(c, cl[c].k - 1))
          /\ Len(FilesOf(Delivered(c, cl[c].k))) >= 1
          /\ Len(JobsOf(v, rc, cl[c].frame.cert)) >= 1

(***************************************************************************)
(* Pending asynchronous operations.                                        *)
(***************************************************************************)
\* C28: no asynchronous operation is started on the IPC pipe or on a capture
\* pipe while another one is pending on the same handle; the IPC pipe never
\* has a read pending while it listens for a client, and a pending read on a
\* capture pipe belongs to a job that was started.
C28_OnePendingOperation ==
    /\ \A n \in DOMAIN ev : ev[n].t # "overlap"
    /\ ~(ipc.rd /\ (ipc.waitForClient \/ pipe.st = "listening"))
    /\ \A k \in reads : k \in Jobs /\ v[k].child.st # "none"

\* The same while the queue is in its first buffer.
C28_OnePendingOperationFirstBuffer == NeverRelocated => C28_OnePendingOperation

\* C28 happens: a read is pending on the IPC pipe and one on the capture
\* pipe of the running job, after a completion of each was handled.
C28_Witness ==
    /\ ipc.rd
    /\ reads # {}
    /\ ipc.state = IST_FILE
    /\ \E k \in reads : v[k].output # <<>>
(***************************************************************************)
(* Whose bytes a log receives.                                             *)
(***************************************************************************)
\* C29: a step that sets a job to running leaves the decoder context reset,
\* and the step that handles a chunk read from the capture pipe of job k
\* appends what the decoder makes of that chunk to the log of job k, behind
\* what the log held, and changes the log of no other job, but for the note
\* of its own exit code in the log of a job started and finished in the step.
C29_LogOfOwnSubprocess ==
    [][/\ (\E n \in DOMAIN ev' : ev'[n].t = "running") => dec' = FreshDec
       /\ \A k \in DOMAIN v :
             (v'[k].child.n = v[k].child.n + 1 /\ srv' = "loop")
             => /\ \E chunk \in ChildChunks :
                      LET log == v[k].output \o DecodeOutput(dec, <<>>, chunk).out
                      IN /\ Len(v'[k].output) >= Len(log)
                         /\ SubSeq(v'[k].output, 1, Len(log)) = log
                /\ \A j \in DOMAIN v \ {k} :
                      \/ v'[j].output = v[j].output
                      \/ /\ RanInStep(ev', j)
                         /\ v'[j].output = v[j].output \o ExitNote(v'[j].child.code)]_vars

\* The same while the queue is in its first buffer.
C29_LogOfOwnSubprocessFirstBuffer ==
    [][NeverRelocated =>
       /\ (\E n \in DOMAIN ev' : ev'[n].t = "running") => dec' = FreshDec
       /\ \A k \in DOMAIN v :
             (v'[k].child.n = v[k].child.n + 1 /\ srv' = "loop")
             => /\ \E chunk \in ChildChunks :
                      LET log == v[k].output \o DecodeOutput(dec, <<>>, chunk).out
                      IN /\ Len(v'[k].output) >= Len(log)
                         /\ SubSeq(v'[k].output, 1, Len(log)) = log
                /\ \A j \in DOMAIN v \ {k} :
                      \/ v'[j].output = v[j].output
                      \/ /\ RanInStep(ev', j)
                         /\ v'[j].output = v[j].output \o ExitNote(v'[j].child.code)]_vars
(***************************************************************************)
(* The life of a cache entry.                                              *)
(***************************************************************************)
\* C30: a step after which the server runs leaves every cache entry that
\* holds a blob in its place, with its key and its blob; the step in which
\* the server ends releases the blob of every such entry, each overwritten
\* with zeros over its whole length, in the order of the table and before
\* the table is destroyed, and releases nothing else of the cache.
C30_CacheEntriesKept ==
    [][/\ srv' \in {"init", "loop"} =>
             \A b \in DOMAIN h : \A k \in DOMAIN h[b] :
                h[b][k].data # NULL =>
                   /\ b \in DOMAIN h' /\ k \in DOMAIN h'[b]
                   /\ h'[b][k].data = h[b][k].data
                   /\ rc'[h'[b][k].key].cert = rc[h[b][k].key].cert
                   /\ rc'[h'[b][k].key].cert.certId # NULL
       /\ (srv \in {"init", "loop"} /\ srv' = "exited") =>
             LET freed == SelectSeq(ev', LAMBDA e : e.t = "LocalFree")
                 blobs == SelectSeq(Concat([i \in 1..HTableSize |->
                                              IF i - 1 \in DOMAIN h THEN h[i - 1] ELSE <<>>]),
                                    LAMBDA e : e.data # NULL)
             IN /\ Len(freed) = Len(blobs)
                /\ \A i \in DOMAIN freed :
                      freed[i].b = [x \in 1..Len(blobs[i].data) |-> 0]
                /\ ev' # <<>> /\ ev'[Len(ev')].t = "hto_delete"
                /\ \A i \in 1..(Len(ev') - 1) : ev'[i].t # "hto_delete"]_vars

\* C30 happens: the server has ended with the blob of a validated PIN in its
\* cache, which it released.
C30_Witness ==
    /\ srv = "exited"
    /\ \E b \in DOMAIN h : \E k \in DOMAIN h[b] :
          /\ h[b][k].data # NULL
          /\ iniConfigValidatePin(LET raw == CryptUnprotectData(h[b][k].data)
                                  IN SubSeq(raw, 1, Len(raw) - 1))
    /\ \E n \in DOMAIN ev : ev[n].t = "LocalFree" /\ ev[n].b # <<>>
C32_QueueAppendOnly ==
    [][srv' \in {"init", "loop"} =>
          /\ Len(v') >= Len(v)
          /\ \A j \in DOMAIN v :
                /\ v'[j].config = v[j].config
                /\ v'[j].signApp = v[j].signApp
                /\ v'[j].path = v[j].path
                /\ Len(v'[j].output) >= Len(v[j].output)
                /\ v[j].child.st # "none" => v'[j].child.cmd = v[j].child.cmd]_vars

\* C32 happens: the queue has outgrown its first buffer, and jobs of the
\* command line and of a request stand in the order in which they came,
\* finished ones among them.
C32_Witness ==
    /\ srv = "loop"
    /\ cap > VecInitCapacity
    /\ Len(v) > VecInitCapacity
    /\ \E j \in Jobs : v[j].state = PST_OK
    /\ \E i, j \in Jobs : i < j /\ v[i].config # v[j].config
(***************************************************************************)
(* Malformed input of the decoder, under SpecDec.                          *)
(***************************************************************************)
\* C33 as stated: below the cap of the log and while the job runs on, the
\* byte that makes a sequence
\* malformed (a byte that is no lead where one is expected, a byte that is
\* no continuation inside a sequence, the last byte of an overlong sequence
\* or of one whose value is beyond 0x10FFFF) adds exactly U+FFFD to the log
\* and leaves the decoder at the start of a sequence; the last byte of a
\* well-formed sequence makes its code point the last decoded one.
C33_MalformedYieldsMarker ==
    [][LET s == v[1].child.out
           n == v[1].child.n
           b == s[n + 1]
           L == CHOOSE l \in 2..4 : /\ n + 2 - l >= 1
                                    /\ s[n + 2 - l] >= 192
                                    /\ \A i \in (n + 3 - l)..n : s[i] \in 128..191
           a == n + 2 - L
           val == IF L = 2 THEN (s[a] % 32) * 64 + (b % 64)
                  ELSE IF L = 3 THEN ((s[a] % 16) * 64 + (s[a + 1] % 64)) * 64 + (b % 64)
                  ELSE (((s[a] % 8) * 64 + (s[a + 1] % 64)) * 64 + (s[a + 2] % 64)) * 64
                       + (b % 64)
           least == IF L = 2 THEN 128 ELSE IF L = 3 THEN 2048 ELSE 65536
           grown == SubSeq(v'[1].output, Len(v[1].output) + 1, Len(v'[1].output))
           complete == dec.rem = 1 /\ b \in 128..191
           malformed == \/ dec.rem = 0 /\ (b \in 128..191 \/ b >= 248)
                        \/ dec.rem > 0 /\ b \notin 128..191
                        \/ complete /\ (val < least \/ val > 1114111)
       IN (/\ v'[1].child.n = n + 1
           /\ dec'.outputLen < ProcessMaxOutput
           /\ v'[1].state = PST_RUNNING) =>
             /\ malformed => (grown = <<65533>> /\ dec'.rem = 0 /\ dec'.lastChar = 65533)
             /\ (complete /\ ~malformed) => (dec'.rem = 0 /\ dec'.lastChar = val)
             /\ (dec.rem = 0 /\ b < 128) => (dec'.rem = 0 /\ dec'.lastChar = b)]_vars

\* C33 for what the decoder detects: the same with the overlong sequences
\* among the well-formed ones; they are decoded to the value of their bits.
C33_DetectedMalformedYieldsMarker ==
    [][LET s == v[1].child.out
           n == v[1].child.n
           b == s[n + 1]
           L == CHOOSE l \in 2..4 : /\ n + 2 - l >= 1
                                    /\ s[n + 2 - l] >= 192
                                    /\ \A i \in (n + 3 - l)..n : s[i] \in 128..191
           a == n + 2 - L
           val == IF L = 2 THEN (s[a] % 32) * 64 + (b % 64)
                  ELSE IF L = 3 THEN ((s[a] % 16) * 64 + (s[a + 1] % 64)) * 64 + (b % 64)
                  ELSE (((s[a] % 8) * 64 + (s[a + 1] % 64)) * 64 + (s[a + 2] % 64)) * 64
                       + (b % 64)
           grown == SubSeq(v'[1].output, Len(v[1].output) + 1, Len(v'[1].output))
           complete == dec.rem = 1 /\ b \in 128..191
           malformed == \/ dec.rem = 0 /\ (b \in 128..191 \/ b >= 248)
                        \/ dec.rem > 0 /\ b \notin 128..191
                        \/ complete /\ val > 1114111
       IN (/\ v'[1].child.n = n + 1
           /\ dec'.outputLen < ProcessMaxOutput
           /\ v'[1].state = PST_RUNNING) =>
             /\ malformed => (grown = <<65533>> /\ dec'.rem = 0 /\ dec'.lastChar = 65533)
             /\ (complete /\ ~malformed) => (dec'.rem = 0 /\ dec'.lastChar = val)
             /\ (dec.rem = 0 /\ b < 128) => (dec'.rem = 0 /\ dec'.lastChar = b)]_vars

\* C33 happens: the stream F4 90 80 80 "A" was read; its log is U+FFFD for
\* the value 0x110000 and the "A" behind it.
C33_Witness ==
    /\ v[1].child.out = <<244, 144, 128, 128, 65>>
    /\ v[1].child.n = 5
    /\ v[1].output = <<65533, 65>>
(***************************************************************************)
(* The code units of a decoded code point, under SpecDec.                  *)
(***************************************************************************)
\* C34: below the cap of the log and while the job runs on, the step that
\* decodes a code point cp (the decoder's last one afterwards) appends the
\* two units 0xD800 + ((cp - 0x10000) >> 10) and 0xDC00 + ((cp - 0x10000) &
\* 0x3FF) when cp is in 0x10000..0x10FFFF and the single unit cp when cp is
\* not zero and below 0x10000 (behind the carriage return the log gets in
\* front of a lone line feed), nothing for zero; a step that decodes no code
\* point appends nothing, and no code point above 0x10FFFF is decoded.
C34_SurrogatePairs ==
    [][LET n == v[1].child.n
           cp == dec'.lastChar
           grown == SubSeq(v'[1].output, Len(v[1].output) + 1, Len(v'[1].output))
           fix == IF cp = 10 /\ dec.lastChar # 13 THEN <<13>> ELSE <<>>
       IN (/\ v'[1].child.n = n + 1
           /\ dec'.outputLen < ProcessMaxOutput
           /\ v'[1].state = PST_RUNNING) =>
             /\ SubSeq(v'[1].output, 1, Len(v[1].output)) = v[1].output
             /\ dec'.outputLen = dec.outputLen => grown = <<>>
             /\ dec'.outputLen # dec.outputLen =>
                   /\ dec'.outputLen = dec.outputLen + 1
                   /\ cp \in 0..1114111
                   /\ cp \in 65536..1114111 =>
                         /\ Len(grown) = 2
                         /\ grown[1] = 55296 + ((cp - 65536) \div 1024)
                         /\ grown[2] = 56320 + ((cp - 65536) % 1024)
                         /\ grown[1] \in 55296..56319
                         /\ grown[2] \in 56320..57343
                   /\ cp \in 1..65535 => grown = fix \o <<cp>>
                   /\ cp = 0 => grown = <<>>]_vars

\* C34 happens: "A" and F4 80 80 80 (U+100000) were read; the log holds the
\* "A" and the pair DBC0 DC00.
C34_Witness ==
    /\ v[1].child.out = <<65, 244, 128, 128, 128>>
    /\ v[1].child.n = 5
    /\ v[1].output = <<65, 56256, 56320>>
    /\ dec.lastChar = 1048576
(***************************************************************************)
(* The pointer to the current job.                                         *)
(***************************************************************************)
\* C35: ctx.proc is NULL or points to the element of the queue at the cursor
\* ctx.vi, a job that was started, and never into a released buffer: while a
\* job is running the pointer is set and no step leaves it dangling.
C35_CurrentJobLive ==
    srv \in {"init", "loop"} =>
       /\ proc # "dangling"
       /\ proc = "live" => (vi + 1 \in Jobs /\ v[vi + 1].state # PST_IDLE)
       /\ Running # {} => proc = "live"

\* The same while the queue is in its first buffer.
C35_CurrentJobLiveFirstBuffer == NeverRelocated => C35_CurrentJobLive
(***************************************************************************)
(* Subprocesses of finished jobs.                                          *)
(***************************************************************************)
\* C36: the subprocess of a job that is in a terminal state has exited (the
\* server has waited for it), and no step creates a subprocess while the
\* subprocess of another job is alive.
C36_SubprocessGone ==
    /\ [](srv \in {"init", "loop"} =>
            \A j \in Jobs :
               v[j].state \notin {PST_IDLE, PST_RUNNING} => v[j].child.st # "alive")
    /\ [][\A n \in DOMAIN ev' :
             ev'[n].t = "spawn" =>
                \A j \in DOMAIN v' \ {ev'[n].a} :
                   ~(v'[j].child.st = "alive" /\ j \in DOMAIN v /\ v[j].child.st = "alive")]_vars
\* C36 for the jobs that were set to running and while the queue is in its
\* first buffer: at the end of such a job processFinish has waited for its
\* subprocess.
C36_FinishedSubprocessGone ==
    [][\A j \in DOMAIN v :
          (/\ NeverRelocated
           /\ srv' \in {"init", "loop"}
           /\ v[j].state = PST_RUNNING
           /\ v'[j].state # PST_RUNNING)
          => v'[j].child.st = "exited"]_vars
\* C37: while the server runs it holds at most one open subprocess handle and
\* at most one open capture-pipe handle: the handles of a finished job are
\* closed before those of the next job are created.
C37_OneHandleOfEachKind ==
    srv \in {"init", "loop"} =>
        /\ Cardinality({x \in open : x[1] = "proc"}) <= 1
        /\ Cardinality({x \in open : x[1] = "pipe"}) <= 1

\* C37, the part that holds: the handles ctx.hProc and ctx.hProcRead name are
\* open and belong to one job, and handles are opened for started jobs only.
C37_CurrentHandlesOpen ==
    srv \in {"init", "loop"} =>
        /\ hProc # 0 => <<"proc", hProc>> \in open
        /\ hProcRead # 0 => <<"pipe", hProcRead>> \in open
        /\ \A x \in open : x[2] \in Jobs /\ v[x[2]].child.st # "none"

\* C38: whenever the server, in its main loop, listens for a connection, and
\* as long as it has taken no byte of the connection it then serves, the decoder buffers
\* nothing, expects the certificate id and holds no header string, no sign
\* command and no identity; and every job the server adds while it serves a
\* connection has the identity and the sign command of the request of that
\* connection and one of its files: nothing of an earlier connection is in it.
C38_FreshDecoderPerConnection ==
    /\ []((/\ srv = "loop"
           /\ ipc.hPipe = "open"
           /\ \/ pipe.st = "listening"
              \/ \E c \in DOMAIN cl : Current(c) /\ cl[c].k = Len(pipe.data))
          => (/\ ipc.buf = <<>>
              /\ ipc.state = IST_CERT_ID
              /\ ipc.cfg = EmptyCfg
              /\ ipc.signApp = NULL
              /\ ipc.cfgBase = 0))
    /\ [][(srv = "loop" /\ Len(v') > Len(v)) =>
             \E c \in DOMAIN cl :
                /\ Current(c)
                /\ \A j \in (Len(v) + 1)..Len(v') :
                      /\ IdentityOf(v', rc', j) = cl[c].frame.cert
                      /\ v'[j].signApp = cl[c].frame.signApp
                      /\ \E i \in DOMAIN cl[c].frame.files :
                            v'[j].path = wToFullPath(cl[c].frame.files[i])]_vars

\* C38 happens: the first invocation has ended inside its second file string,
\* the server listened again, and the second invocation's file became a job
\* of the second invocation's identity.
C38_Witness ==
    /\ cl[1].pc = "failed"
    /\ Len(FilesOf(Delivered(1, cl[1].k))) = 1
    /\ cl[1].k > Len(FrameBytes([cl[1].frame EXCEPT !.files = <<@[1]>>]))
    /\ Len(JobsOf(v, rc, cl[1].frame.cert)) = 1
    /\ Len(JobsOf(v, rc, cl[2].frame.cert)) = 1

\* C39: in every state no job at an index below the cursor ctx.vi is idle,
\* so the first idle job found from the cursor on is the first idle job of
\* the queue; and no step decreases the cursor.
C39_CursorInvariant ==
    /\ [](/\ \A j \in Jobs : j - 1 < vi => v[j].state # PST_IDLE
          /\ NextIdle([v |-> v], vi) = NextIdle([v |-> v], 0))
    /\ [][vi' >= vi]_vars

\* C39 happens: the cursor has moved past an ended job to the second one,
\* which runs, and a third job waits behind the cursor.
C39_Witness ==
    /\ Len(v) >= 3
    /\ vi = 1
    /\ v[1].state \in Terminal
    /\ v[2].state = PST_RUNNING
    /\ v[3].state = PST_IDLE

\* C40: ctx.buf never holds more bytes than its size, and a read takes no
\* more bytes off the pipe than the free space of ctx.buf (all that is there,
\* up to that space); when ctx.buf is full without a complete string and the
\* read behind it ends, that step adds no job, drops the connection and
\* leaves the server listening with an empty decoder; and no job of the queue
\* has a path that does not fit ctx.buf with its terminator.
C40_BufferBounded ==
    /\ [](/\ Len(ipc.buf) <= IpcBufSize
          /\ \A j \in Jobs : 2 * (Len(v[j].path) + 1) <= IpcBufSize)
    /\ [][(/\ cl' = cl
           /\ pipe'.st = "connected"
           /\ Len(pipe'.data) < Len(pipe.data))
          => (Len(pipe.data) - Len(pipe'.data)
                 = Min(Len(pipe.data), IpcBufSize - Len(ipc.buf)))]_vars
    /\ [][(/\ srv = "loop" /\ srv' = "loop"
           /\ ipc.rd
           /\ Len(ipc.buf) = IpcBufSize
           /\ cl' = cl
           /\ <<ipc, pipe>>' # <<ipc, pipe>>)
          => (/\ v' = v
              /\ \E n \in 1..Len(ev') : ev'[n].t = "disconnect" /\ ev'[n].a = pipe.peer
              /\ pipe'.st = "listening"
              /\ ipc'.waitForClient
              /\ ipc'.buf = <<>>
              /\ ipc'.state = IST_CERT_ID)]_vars

\* C40 happens: the first invocation has sent as many bytes of its file
\* string as ctx.buf holds, the server has dropped it without a job, and the
\* second invocation's file became a job afterwards.
C40_Witness ==
    /\ cl[1].k >= Len(FrameBytes([cl[1].frame EXCEPT !.files = <<>>])) + IpcBufSize
    /\ cl[1].pc = "failed"
    /\ Len(JobsOf(v, rc, cl[1].frame.cert)) = 0
    /\ Len(JobsOf(v, rc, cl[2].frame.cert)) = 1

====
